---- MODULE Spec2Model ----
(***************************************************************************)
(* PolyClaw position lifecycle: the position store (positions.json), the   *)
(* trade saga (split + CLOB hedge sell + persist) and the redemption saga  *)
(* (scan + redeem + status update).                                        *)
(*                                                                         *)
(* Conventions.  An Optional[...] value is a sequence of length at most 1: *)
(* None is <<>> and a present value x is <<x>>.  Money is counted in       *)
(* integers: USD amounts in whole dollars, prices in cents, token balances *)
(* in base units (1e-6).  Transaction hashes are the index of the          *)
(* transaction in the chain log.                                           *)
(***************************************************************************)
EXTENDS Integers, Sequences, FiniteSets, TLC

VARIABLES
    file,      \* content of positions.json
    tmp,       \* content of positions.tmp
    chain,     \* log of the transactions submitted on-chain (hash = index)
    now,       \* value the next datetime.now() returns
    nextId,    \* value the next uuid.uuid4() returns
    buy,       \* trace of the last buy_position / cmd_buy call
    ex,        \* state of the current / last redeem command
    lock,      \* _storage_lock: 0 when free, else the thread holding it
    th,        \* threads calling the store: position, call, locals
    hist       \* history of the store calls (ghost state for the claims)

vars == <<file, tmp, chain, now, nextId, buy, ex, lock, th, hist>>

----------------------------------------------------------------------------
(* Bounds of the model *)

MaxTx == 3
MaxRecords == 2

----------------------------------------------------------------------------
(* Optional values *)

None == <<>>
Some(x) == <<x>>
IsNone(o) == o = <<>>

Range(s) == {s[i] : i \in 1..Len(s)}

----------------------------------------------------------------------------
(* lib/position_storage.py *)

\* Position ids: str(uuid.uuid4()) of the n-th record made, and
\* f"onchain-{condition_id[:8]}" of an item of the on-chain feed.
Uuid(n) == <<"uuid", n, "">>
OnchainId(condition_id) == <<"onchain", 0, condition_id>>

\* PositionEntry, as asdict() writes it; status and notes take their defaults.
PositionEntry(pid, mid, q, pos, tok, t, amt, price, stx, oid, filled) ==
    [position_id |-> pid, market_id |-> mid, question |-> q, position |-> pos,
     token_id |-> tok, entry_time |-> t, entry_amount |-> amt,
     entry_price |-> price, split_tx |-> stx, clob_order_id |-> oid,
     clob_filled |-> filled, status |-> "open", notes |-> None]

\* What a path on disk can hold.  "array" is a JSON array of records (recs);
\* "undecodable" is text json.loads rejects (empty, truncated, not JSON);
\* "badutf8" is bytes read_text cannot decode; "object" and "scalar" are
\* well-formed JSON documents that are not arrays.
Missing == [kind |-> "missing", recs |-> <<>>]
Undecodable == [kind |-> "undecodable", recs |-> <<>>]
BadUtf8 == [kind |-> "badutf8", recs |-> <<>>]
JsonObject == [kind |-> "object", recs |-> <<>>]
JsonScalar == [kind |-> "scalar", recs |-> <<>>]
Doc(positions) == [kind |-> "array", recs |-> positions]

\* PositionStorage.load_all: the value returned (t: the Python type, items:
\* the elements of a list) or the exception raised.
load_all(f) ==
    CASE f.kind = "missing" -> [raised |-> "none", t |-> "list", items |-> <<>>]
      [] f.kind = "undecodable" -> [raised |-> "none", t |-> "list", items |-> <<>>]
      [] f.kind = "badutf8" -> [raised |-> "UnicodeDecodeError", t |-> "none", items |-> <<>>]
      [] f.kind = "object" -> [raised |-> "none", t |-> "dict", items |-> <<>>]
      [] f.kind = "scalar" -> [raised |-> "none", t |-> "int", items |-> <<>>]
      [] OTHER -> [raised |-> "none", t |-> "list", items |-> f.recs]

\* The collection a load_all of f yields when it yields a list.
Coll(f) == load_all(f).items

\* Index of the first record with the id, 0 when there is none
\* (for p in positions: if p.get("position_id") == position_id).
RECURSIVE FirstFrom(_, _, _)
FirstFrom(positions, pid, i) ==
    IF i > Len(positions) THEN 0
    ELSE IF positions[i].position_id = pid THEN i
    ELSE FirstFrom(positions, pid, i + 1)

FirstIndex(positions, pid) == FirstFrom(positions, pid, 1)

\* Mutant: add without its append.
add_mutate_nothing(positions, entry) == positions

\* PositionStorage.add, in memory: positions.append(asdict(entry)).
add_mutate(positions, entry) == Append(positions, entry)

\* PositionStorage.update_status, in memory.
update_status_drops(positions, pid, status) ==
    SelectSeq(positions, LAMBDA p : p.position_id # pid)

update_status_mutate(positions, pid, status) ==
    LET i == FirstIndex(positions, pid) IN
    IF i = 0 THEN positions
    ELSE [positions EXCEPT ![i] = [@ EXCEPT !.status = status]]

\* Mutant: update_notes writes the notes of every record that has the id.
update_notes_every(positions, pid, notes) ==
    [i \in 1..Len(positions) |->
        IF positions[i].position_id = pid
        THEN [positions[i] EXCEPT !.notes = notes] ELSE positions[i]]

\* PositionStorage.update_notes, in memory.
update_notes_mutate(positions, pid, notes) ==
    LET i == FirstIndex(positions, pid) IN
    IF i = 0 THEN positions
    ELSE [positions EXCEPT ![i] = [@ EXCEPT !.notes = notes]]

\* PositionStorage.delete, in memory: the records with another id.
RECURSIVE delete_mutate(_, _)
delete_mutate(positions, pid) ==
    IF positions = <<>> THEN <<>>
    ELSE IF Head(positions).position_id = pid
         THEN delete_mutate(Tail(positions), pid)
         ELSE <<Head(positions)>> \o delete_mutate(Tail(positions), pid)

\* PositionStorage.get: the first record with the id, or None.
get(f, pid) ==
    LET positions == Coll(f)
        i == FirstIndex(positions, pid)
    IN IF i = 0 THEN None ELSE Some(positions[i])

\* PositionStorage.get_by_market.
RECURSIVE FilterMarket(_, _)
FilterMarket(positions, mid) ==
    IF positions = <<>> THEN <<>>
    ELSE IF Head(positions).market_id = mid
         THEN <<Head(positions)>> \o FilterMarket(Tail(positions), mid)
         ELSE FilterMarket(Tail(positions), mid)

get_by_market(f, mid) == FilterMarket(Coll(f), mid)

\* PositionStorage.get_open.
RECURSIVE FilterOpen(_)
FilterOpen(positions) ==
    IF positions = <<>> THEN <<>>
    ELSE IF Head(positions).status = "open"
         THEN <<Head(positions)>> \o FilterOpen(Tail(positions))
         ELSE FilterOpen(Tail(positions))

\* Mutant: the status filter left out.
get_open_unfiltered(f) == Coll(f)

get_open(f) == FilterOpen(Coll(f))

\* The whole of a mutating call made by a sequential caller (lock taken,
\* load_all, change, save_all, lock released): the file afterwards.
StoreAdd(f, entry) == Doc(add_mutate(Coll(f), entry))

\* Mutant: update_status saves whether or not it found the record.
StoreUpdateStatusSavesAlways(f, pid, status) ==
    Doc(update_status_mutate(Coll(f), pid, status))

StoreUpdateStatus(f, pid, status) ==
    IF FirstIndex(Coll(f), pid) = 0 THEN f
    ELSE Doc(update_status_mutate(Coll(f), pid, status))

StoreUpdateNotes(f, pid, notes) ==
    IF FirstIndex(Coll(f), pid) = 0 THEN f
    ELSE Doc(update_notes_mutate(Coll(f), pid, notes))

StoreDelete(f, pid) ==
    IF Len(delete_mutate(Coll(f), pid)) < Len(Coll(f))
    THEN Doc(delete_mutate(Coll(f), pid))
    ELSE f

----------------------------------------------------------------------------
(* lib/clob_client.py *)

\* Default of the CLOB_MAX_RETRIES environment variable.
CLOB_MAX_RETRIES == 5

\* Longest run of edge-block errors the order book answers with before its
\* final answer.
MaxBlocks == 2

\* Error texts the order-book client raises with (str(e)).
ErrorTexts == {"403 cloudflare", "403 Request Blocked", "403 forbidden",
               "cloudflare 502", "no match", "Insufficient balance", "timeout"}

Has403(msg) == msg \in {"403 cloudflare", "403 Request Blocked", "403 forbidden"}
HasCloudflare(msg) == msg \in {"403 cloudflare", "cloudflare 502"}
HasBlocked(msg) == msg \in {"403 Request Blocked"}
HasNoMatch(msg) == msg \in {"no match"}
HasInsufficient(msg) == msg \in {"Insufficient balance"}

\* ClobClientWrapper._is_cloudflare_block.
is_cloudflare_block(msg) == Has403(msg) /\ (HasCloudflare(msg) \/ HasBlocked(msg))

\* round(max(price * 0.90, 0.01), 2) in cents, as IEEE doubles compute it for
\* a price of p cents, 0 <= p <= 100: the nearest cent, a half-cent going up
\* except at p = 95 (0.95 * 0.9 is the double just below 0.855).
sell_price(p) ==
    LET r == IF p = 95 THEN 85 ELSE (9 * p + 5) \div 10
    IN IF r < 1 THEN 1 ELSE r

\* The n-th answer of the order book: the script's n-th entry, its last
\* entry from then on.  An entry is "ok" (order accepted) or an error text.
Answer(script, n) == IF n <= Len(script) THEN script[n] ELSE script[Len(script)]

\* The order id of an accepted order (result.get("orderID", ...)).
OrderId == "order-1"

\* The message sell_fok returns for the last error.
sell_error_msg(last_error) ==
    IF is_cloudflare_block(last_error) THEN "IP blocked by Cloudflare"
    ELSE IF HasNoMatch(last_error) \/ HasInsufficient(last_error) THEN "No liquidity"
    ELSE last_error

\* Mutant: the transport is made anew before every attempt.
refresh_always(attempt, proxy) == proxy

\* if attempt > 0 and proxy: self._refresh_http_client()
refresh_due(attempt, proxy) == attempt > 0 /\ proxy

\* Mutant: every error is retried.
retry_always(msg, proxy) == TRUE

\* if self._is_cloudflare_block(last_error) and proxy: continue
retry_due(msg, proxy) == is_cloudflare_block(msg) /\ proxy

\* What a sell_fok call did: the exception it raised ("none" when it
\* returned), the tuple returned, the orders submitted, the calls of
\* _refresh_http_client, and both in their order (log: "refresh", "post").
SellOutcome(raised, order_id, filled, error, attempts, refreshes, log) ==
    [raised |-> raised, order_id |-> order_id, filled |-> filled, error |-> error,
     attempts |-> attempts, refreshes |-> refreshes, log |-> log]

\* The loop of sell_fok from attempt (0-based) on.  refreshes counts the
\* calls of _refresh_http_client, log lists them and the orders submitted.
RECURSIVE sell_loop(_, _, _, _, _, _, _)
sell_loop(attempt, script, proxy, retries, refreshes, last_error, log) ==
    IF attempt >= retries
    THEN \* range exhausted: classify last_error, which is None when the
         \* loop body never ran ("403" in None raises TypeError)
         IF IsNone(last_error)
         THEN SellOutcome("TypeError", None, FALSE, None, attempt, refreshes, log)
         ELSE SellOutcome("none", None, FALSE, Some(sell_error_msg(last_error[1])),
                          attempt, refreshes, log)
    ELSE LET due == refresh_due(attempt, proxy)
             r == IF due THEN refreshes + 1 ELSE refreshes
             l == (IF due THEN Append(log, "refresh") ELSE log) \o <<"post">>
             a == Answer(script, attempt + 1)
         IN IF a = "ok"
            THEN SellOutcome("none", Some(OrderId), TRUE, None, attempt + 1, r, l)
            ELSE IF retry_due(a, proxy)
                 THEN sell_loop(attempt + 1, script, proxy, retries, r, Some(a), l)
                 ELSE SellOutcome("none", None, FALSE, Some(sell_error_msg(a)),
                                  attempt + 1, r, l)

\* ClobClientWrapper.sell_fok.  env: import_ok (py_clob_client importable),
\* proxy (HTTPS_PROXY or HTTP_PROXY set), retries (CLOB_MAX_RETRIES as
\* configured), script (the order book's answers).
sell_fok(token_id, amount, price, env) ==
    IF ~env.import_ok
    THEN SellOutcome("ImportError", None, FALSE, None, 0, 0, <<>>)
    ELSE sell_loop(0, env.script, env.proxy, env.retries, 0, None, <<>>)

\* The environments of a sell_fok call.
BlockPrefix(k) == [i \in 1..k |-> "403 cloudflare"]
Scripts == {BlockPrefix(k) \o <<a>> : k \in 0..MaxBlocks, a \in ErrorTexts \cup {"ok"}}
SellEnvs == [import_ok : BOOLEAN, proxy : BOOLEAN,
             retries : 0..CLOB_MAX_RETRIES, script : Scripts]

----------------------------------------------------------------------------
(* The market-info provider (GammaClient.get_market) as the sagas use it *)

Markets == {"m1", "m2"}

Cond(m) == IF m = "m1" THEN "0xc1" ELSE "0xc2"
Question(m) == IF m = "m1" THEN "Will it rain?" ELSE "Will it snow?"
YesPrice(m) == IF m = "m1" THEN 65 ELSE 50
NoPrice(m) == IF m = "m1" THEN 35 ELSE 50

\* Token ids: the pair of the market and the side; <<>> is the empty id.
Token(m, side) == <<m, side>>
NoTokenId == <<>>

\* A Market as get_market returns it while the market trades.
Market(m, tokens) ==
    [condition_id |-> Cond(m), question |-> Question(m),
     yes_token_id |-> IF tokens THEN Token(m, "YES") ELSE NoTokenId,
     no_token_id |-> IF tokens THEN Token(m, "NO") ELSE NoTokenId,
     yes_price |-> YesPrice(m), no_price |-> NoPrice(m)]

----------------------------------------------------------------------------
(* scripts/trade.py *)

\* str.upper() on the side texts of the model.
Upper(s) ==
    CASE s = "yes" -> "YES"
      [] s = "no" -> "NO"
      [] s = "maybe" -> "MAYBE"
      [] s = "Yes" -> "YES"
      [] s = "No" -> "NO"
      [] OTHER -> s

\* Outcomes of TradeExecutor._split_position / RedeemExecutor.redeem_position:
\* "success": sent, receipt status 1; "reverted": sent, receipt status != 1;
\* "timeout": sent, wait_for_transaction_receipt raised; "not_sent": an
\* exception before the transaction was sent.
TxOutcomes == {"success", "reverted", "timeout", "not_sent"}

\* The transaction a call leaves in the chain log.
Tx(kind, condition_id, outcome) ==
    [kind |-> kind, condition_id |-> condition_id, receipt |-> outcome]

\* An error: its text and the transaction hash the text carries, if any.
Err(text, tx) == [text |-> text, tx |-> tx]

\* Mutant: the receipt's status is not looked at.
receipt_unchecked(outcome) == FALSE

\* if receipt["status"] != 1: raise ValueError(f"... failed: {tx_hash.hex()}")
receipt_failed(outcome) == outcome # "success"

\* Mutant: a transaction whose receipt reports failure is sent again.
send_tx_resubmits(kind, condition_id, outcome, hash) ==
    IF outcome = "reverted"
    THEN [txs |-> <<Tx(kind, condition_id, "reverted"), Tx(kind, condition_id, "success")>>,
          tx_hash |-> Some(hash + 1), error |-> None]
    ELSE [txs |-> IF outcome = "not_sent" THEN <<>> ELSE <<Tx(kind, condition_id, outcome)>>,
          tx_hash |-> IF outcome = "success" THEN Some(hash) ELSE None,
          error |-> IF outcome = "not_sent" THEN Some(Err("RPC error", None))
                    ELSE IF outcome = "timeout" THEN Some(Err("TimeExhausted", None))
                    ELSE None]

\* _split_position / redeem_position: the transactions sent (at most one,
\* send_raw_transaction is called once), the hash returned (None when the
\* call raised) and the exception raised (None when it returned).  hash is
\* the hash the transaction gets if it is sent.
send_tx(kind, condition_id, outcome, hash) ==
    [txs |-> IF outcome = "not_sent" THEN <<>> ELSE <<Tx(kind, condition_id, outcome)>>,
     tx_hash |-> IF outcome \in {"not_sent", "timeout"} \/ receipt_failed(outcome)
                 THEN None ELSE Some(hash),
     error |-> IF outcome = "not_sent" THEN Some(Err("RPC error", None))
               ELSE IF outcome = "timeout" THEN Some(Err("TimeExhausted", None))
               ELSE IF receipt_failed(outcome)
                    THEN Some(Err(IF kind = "split" THEN "Split failed" ELSE "Redeem failed",
                                  Some(hash)))
                    ELSE None]

TradeResult(success, market_id, position, amount, split_tx, clob_order_id, clob_filled, error, question, wanted_token_id, entry_price) ==
    [success |-> success, market_id |-> market_id, position |-> position,
     amount |-> amount, split_tx |-> split_tx, clob_order_id |-> clob_order_id,
     clob_filled |-> clob_filled, error |-> error, question |-> question,
     wanted_token_id |-> wanted_token_id, entry_price |-> entry_price]

\* The result of a guard clause or of a failed step.
Failure(market_id, position, amount, error) ==
    TradeResult(FALSE, market_id, position, amount, None, None, FALSE,
                Some(error), "", NoTokenId, 0)

\* What a buy_position call did: the exception it raised ("none" when it
\* returned), its result, the transactions it sent, the sell_fok attempts
\* it made.
BuyOutcome(raised, result, txs, orders) ==
    [raised |-> raised, result |-> result, txs |-> txs, orders |-> orders]

\* if position not in ["YES", "NO"]
invalid_side(position) == position \notin {"YES", "NO"}

\* Mutant: the balance check lets a balance one dollar short through.
insufficient_off_by_one(balance, amount) == balance + 1 < amount

\* if balances.usdc_e < amount
insufficient(balance, amount) == balance < amount

\* Mutant: the hedge step without its except clause.
hedge_sell_uncaught(selling, sold) ==
    [raised |-> IF selling THEN sold.raised ELSE "none",
     order_id |-> IF selling THEN sold.order_id ELSE None,
     filled |-> IF selling THEN sold.filled ELSE FALSE,
     error |-> IF ~selling \/ IsNone(sold.error) THEN None
               ELSE Some(Err(sold.error[1], None))]

\* The hedge step of buy_position: sell_fok inside try / except Exception.
\* raised is what leaves the step: nothing, the except clause takes all.
hedge_sell(selling, sold) ==
    [raised |-> "none",
     order_id |-> IF selling /\ sold.raised = "none" THEN sold.order_id ELSE None,
     filled |-> IF selling /\ sold.raised = "none" THEN sold.filled ELSE FALSE,
     error |-> IF ~selling THEN None
               ELSE IF sold.raised = "none"
                    THEN (IF IsNone(sold.error) THEN None ELSE Some(Err(sold.error[1], None)))
                    ELSE Some(Err(sold.raised, None))]

\* TradeExecutor.buy_position.  env: unlocked (wallet.is_unlocked), balance
\* (get_balances().usdc_e, None when the read raises), market (get_market,
\* None when it raises), split (outcome of the split transaction), sell
\* (environment of sell_fok).  hash: the hash of the next transaction.
buy_position(market_id, position0, amount, skip_clob_sell, env, hash) ==
    LET position == Upper(position0) IN
    IF invalid_side(position)
    THEN BuyOutcome("none", Failure(market_id, position, amount,
                                    Err("Position must be YES or NO", None)), <<>>, 0)
    ELSE IF ~env.unlocked
    THEN BuyOutcome("none", Failure(market_id, position, amount,
                                    Err("Wallet not unlocked", None)), <<>>, 0)
    ELSE IF IsNone(env.balance)
    THEN BuyOutcome("ValueError", Failure(market_id, position, amount,
                                          Err("raised", None)), <<>>, 0)
    ELSE IF insufficient(env.balance[1], amount)
    THEN BuyOutcome("none", Failure(market_id, position, amount,
                                    Err("Insufficient USDC.e", None)), <<>>, 0)
    ELSE IF IsNone(env.market)
    THEN BuyOutcome("none", Failure(market_id, position, amount,
                                    Err("Failed to fetch market", None)), <<>>, 0)
    ELSE
    LET market == env.market[1]
        wanted_token == IF position = "YES" THEN market.yes_token_id ELSE market.no_token_id
        unwanted_token == IF position = "YES" THEN market.no_token_id ELSE market.yes_token_id
        wanted_price == IF position = "YES" THEN market.yes_price ELSE market.no_price
        unwanted_price == IF position = "YES" THEN market.no_price ELSE market.yes_price
        split == send_tx("split", market.condition_id, env.split, hash)
    IN
    IF ~IsNone(split.error)
    THEN \* error=f"Split failed: {e}"
         BuyOutcome("none", Failure(market_id, position, amount,
                                    Err("Split failed", split.error[1].tx)),
                    split.txs, 0)
    ELSE
    LET selling == ~skip_clob_sell /\ unwanted_token # NoTokenId
        sold == sell_fok(unwanted_token, amount, unwanted_price, env.sell)
        hedge == hedge_sell(selling, sold)
        orders == IF selling THEN sold.attempts ELSE 0
    IN IF hedge.raised # "none"
       THEN BuyOutcome(hedge.raised, Failure(market_id, position, amount,
                                             Err("raised", None)), split.txs, orders)
       ELSE BuyOutcome("none",
                       TradeResult(TRUE, market_id, position, amount, split.tx_hash,
                                   hedge.order_id, hedge.filled, hedge.error,
                                   market.question, wanted_token, wanted_price),
                       split.txs, orders)

----------------------------------------------------------------------------
(* scripts/redeem.py *)

\* Token balances read on-chain, in base units, and the page size of the
\* positions feed.
Balances == {50000000}
PAGE_LIMIT == 100

\* f"{usd:.2f}" of a value of micro base units, in cents (no balance of the
\* model lies on a half cent).
Cents(micro) == (micro + 5000) \div 10000

\* An entry of a scan result.  pos: the local record (**pos), None for an
\* entry of the feed; condition_id: None when the entry has no such key.
Item(pos, position_id, market_id, question, position, token_id, market_outcome, is_winner, on_chain_balance, redeemable_usd, condition_id, source) ==
    [pos |-> pos, position_id |-> position_id, market_id |-> market_id,
     question |-> question, position |-> position, token_id |-> token_id,
     market_outcome |-> market_outcome, is_winner |-> is_winner,
     on_chain_balance |-> on_chain_balance, redeemable_usd |-> redeemable_usd,
     condition_id |-> condition_id, source |-> source]

LocalItemWorthless(pos, market_outcome, is_winner, balance, condition_id) ==
    Item(Some(pos), pos.position_id, pos.market_id, pos.question, pos.position,
         pos.token_id, market_outcome, is_winner, balance, 0, condition_id, "local")

LocalItem(pos, market_outcome, is_winner, balance, condition_id) ==
    Item(Some(pos), pos.position_id, pos.market_id, pos.question, pos.position,
         pos.token_id, market_outcome, is_winner, balance, balance, condition_id, "local")

\* What get_market answers for a record of a scan: resolved, outcome (None
\* when absent) and the condition id.
MarketState(m, resolved, outcome) ==
    [resolved |-> resolved, outcome |-> outcome, condition_id |-> Cond(m)]

MarketOutcomes == {None, Some("YES"), Some("NO"), Some("no")}

\* The environment of the scan of one record: market (None when get_market
\* raises), balance (None when balanceOf raises), cond_resolved
\* (_is_condition_resolved, false when payoutDenominator raises).
ScanEnv(market, balance, cond_resolved) ==
    [market |-> market, balance |-> balance, cond_resolved |-> cond_resolved]

ScanEnvs(m) ==
    {ScanEnv(None, None, FALSE), ScanEnv(Some(MarketState(m, FALSE, None)), None, FALSE)}
    \cup {ScanEnv(Some(MarketState(m, TRUE, o)), b, FALSE) :
             o \in MarketOutcomes, b \in {None, Some(0)} \cup {Some(x) : x \in Balances}}
    \cup {ScanEnv(Some(MarketState(m, TRUE, o)), Some(x), TRUE) :
             o \in MarketOutcomes, x \in Balances}

\* The winner test of scan_redeemable.
is_winner_any(outcome, our_side) == TRUE

is_winner(outcome, our_side) ==
    (outcome = "YES" /\ our_side = "YES") \/ (outcome = "NO" /\ our_side = "NO")

\* The body of the loop of scan_redeemable for one open record: the entry
\* appended, None when the record is passed over.
scan_one(pos, env) ==
    IF IsNone(env.market) THEN None
    ELSE LET market == env.market[1]
             outcome == Upper(IF IsNone(market.outcome) THEN "" ELSE market.outcome[1])
             our_side == Upper(pos.position)
         IN IF ~market.resolved THEN None
            ELSE IF ~is_winner(outcome, our_side)
                 THEN Some(LocalItem(pos, outcome, FALSE, 0, None))
            ELSE IF pos.token_id = NoTokenId THEN None
            ELSE IF IsNone(env.balance) THEN None
            ELSE IF env.balance[1] = 0 THEN None
            ELSE IF ~env.cond_resolved THEN None
            ELSE Some(LocalItem(pos, outcome, TRUE, env.balance[1],
                                Some(market.condition_id)))

\* The turn of the loop for one record ends in its except clause:
\* get_market raised, or balanceOf raised for a record on the winning side.
scan_raised(pos, env) ==
    IF IsNone(env.market) THEN TRUE
    ELSE LET market == env.market[1]
             outcome == Upper(IF IsNone(market.outcome) THEN "" ELSE market.outcome[1])
         IN /\ market.resolved
            /\ is_winner(outcome, Upper(pos.position))
            /\ pos.token_id # NoTokenId
            /\ IsNone(env.balance)

\* The record the loop turns to after record i of n (except ...: continue).
scan_next_break(i, n, raised) == IF raised THEN n + 1 ELSE i + 1

scan_next(i, n, raised) == i + 1

\* An item of the positions feed (size in base units).
FeedItem(condition_id, size, outcome) ==
    [conditionId |-> condition_id, title |-> "feed market", size |-> size,
     outcome |-> outcome, asset |-> <<condition_id, outcome>>]

\* The entry scan_redeemable_onchain makes of a feed item.
OnchainItem(it) ==
    Item(None, OnchainId(it.conditionId), it.conditionId, it.title,
         IF it.outcome = "" THEN "UNKNOWN" ELSE Upper(it.outcome),
         it.asset, IF it.outcome = "" THEN "" ELSE Upper(it.outcome),
         TRUE, it.size, it.size, Some(it.conditionId), "data_api")

\* if len(batch) < limit: break
page_is_last_always(n) == TRUE

page_is_last(n) == n < PAGE_LIMIT

\* A query of the feed so far: the entries listed and the offsets asked.
FeedScan(items, asked) == [items |-> items, asked |-> asked]

\* One query of the feed from offset on: the entries appended to those of
\* scan, the offsets asked.  skip_listed: the mergeable query passes over
\* a condition already listed.
RECURSIVE feed_pages(_, _, _, _)

\* for item in batch: the entries of the items the loop appends to acc.
\* An item is passed over if its size is not above 0 and, with
\* skip_listed, if its condition is listed: in acc, or by an item with a
\* size earlier in the batch (appended, or passed over as listed).
feed_batch(batch, acc, skip_listed) ==
    LET listed(cid) == \E k \in 1..Len(acc) : acc[k].market_id = cid
        earlier(i) == \E j \in 1..(i - 1) :
                         batch[j].size > 0 /\ batch[j].conditionId = batch[i].conditionId
        taken == {i \in 1..Len(batch) :
                    /\ batch[i].size > 0
                    /\ skip_listed => (~listed(batch[i].conditionId) /\ ~earlier(i))}
        nth(k) == CHOOSE i \in taken : Cardinality({j \in taken : j <= i}) = k
    IN acc \o [k \in 1..Cardinality(taken) |-> OnchainItem(batch[nth(k)])]

feed_pages(feed, offset, scan, skip_listed) ==
    LET last == IF offset + PAGE_LIMIT < Len(feed) THEN offset + PAGE_LIMIT ELSE Len(feed)
        batch == SubSeq(feed, offset + 1, last)
        asked == Append(scan.asked, offset)
    IN IF batch = <<>> THEN FeedScan(scan.items, asked)
       ELSE IF page_is_last(Len(batch))
       THEN FeedScan(feed_batch(batch, scan.items, skip_listed), asked)
       ELSE feed_pages(feed, offset + PAGE_LIMIT,
                       FeedScan(feed_batch(batch, scan.items, skip_listed), asked),
                       skip_listed)

\* The two queries of scan_redeemable_onchain, redeemable then mergeable:
\* the entries listed and the offsets each query asked.
feed_queries(redeemable_feed, mergeable_feed) ==
    LET first == feed_pages(redeemable_feed, 0, FeedScan(<<>>, <<>>), FALSE)
        second == feed_pages(mergeable_feed, 0, FeedScan(first.items, <<>>), TRUE)
    IN [items |-> second.items, listed_first |-> Len(first.items),
        asked_redeemable |-> first.asked, asked_mergeable |-> second.asked]

\* scan_redeemable_onchain on the answers of the feed to the redeemable
\* and the mergeable query.
scan_redeemable_onchain(redeemable_feed, mergeable_feed) ==
    feed_queries(redeemable_feed, mergeable_feed).items

\* cid = item.get("condition_id", item.get("market_id", ""))
merge_key(item) == IF IsNone(item.condition_id) THEN item.market_id ELSE item.condition_id[1]

\* scan_all: the local entries, then the feed's entries whose key is new.
RECURSIVE merge_onchain(_, _, _)
merge_onchain(onchain, seen, merged) ==
    IF onchain = <<>> THEN merged
    ELSE LET cid == merge_key(Head(onchain))
         IN IF cid \in seen
            THEN merge_onchain(Tail(onchain), seen, merged)
            ELSE merge_onchain(Tail(onchain), seen \cup {cid}, Append(merged, Head(onchain)))

scan_all(local, onchain) ==
    merge_onchain(onchain, {merge_key(local[k]) : k \in 1..Len(local)}, local)

\* The answers of the feed to a scan: feed down (raise_for_status raises),
\* nothing, m1's condition in both queries, an unknown condition, both
\* with an empty holding.
FeedDown == [up |-> FALSE, redeemable |-> <<>>, mergeable |-> <<>>]
FeedUp(redeemable, mergeable) ==
    [up |-> TRUE, redeemable |-> redeemable, mergeable |-> mergeable]
FeedEnvs ==
    {FeedDown,
     FeedUp(<<>>, <<>>),
     FeedUp(<<FeedItem(Cond("m1"), 3000000, "Yes")>>, <<FeedItem(Cond("m1"), 3000000, "Yes")>>),
     FeedUp(<<FeedItem("0xc9", 3000000, "")>>, <<>>),
     FeedUp(<<FeedItem(Cond("m1"), 3000000, "No"), FeedItem("0xc9", 0, "Yes")>>,
            <<FeedItem("0xc9", 3000000, "Yes")>>)}

\* The environments of the commands in a sequence of commands.  A scan:
\* market open, resolved YES or no with the balance held and the condition
\* resolved, resolved YES with nothing held.  The feed: down, or up with
\* nothing to redeem.
RunScanEnvs(m) ==
    {ScanEnv(Some(MarketState(m, FALSE, None)), None, FALSE),
     ScanEnv(Some(MarketState(m, TRUE, Some("YES"))), Some(0), TRUE)}
    \cup {ScanEnv(Some(MarketState(m, TRUE, o)), Some(x), TRUE) :
             o \in {Some("YES"), Some("no")}, x \in Balances}

RunFeedEnvs == {FeedDown, FeedUp(<<>>, <<>>)}

RunTxOutcomes == {"success", "reverted", "timeout"}

RECURSIVE Winners(_)
Winners(items) ==
    IF items = <<>> THEN <<>>
    ELSE IF Head(items).is_winner THEN <<Head(items)>> \o Winners(Tail(items))
    ELSE Winners(Tail(items))

RECURSIVE Losers(_)
Losers(items) ==
    IF items = <<>> THEN <<>>
    ELSE IF ~Head(items).is_winner THEN <<Head(items)>> \o Losers(Tail(items))
    ELSE Losers(Tail(items))

RedeemResult(success, item, token_count, redeemed_usd, tx_hash, error) ==
    [success |-> success, position_id |-> item.position_id, market_id |-> item.market_id,
     question |-> item.question, position |-> item.position,
     token_count |-> token_count, redeemed_usd |-> redeemed_usd,
     tx_hash |-> tx_hash, error |-> error]

\* f"Redeemed ${usd:.2f} | TX: {tx_hash} | {now}"
RedeemNoteWithoutTx(usd, tx_hash, t) == [usd_cents |-> Cents(usd), tx |-> 0, time |-> t]

RedeemNote(usd, tx_hash, t) == [usd_cents |-> Cents(usd), tx |-> tx_hash, time |-> t]

\* redeem_all with no winner: every loser marked resolved, one result each.
RECURSIVE resolve_losers(_, _)
resolve_losers(losers, f) ==
    IF losers = <<>> THEN f
    ELSE resolve_losers(Tail(losers),
                        StoreUpdateStatus(f, Head(losers).position_id, "resolved"))

loser_results(losers) ==
    [k \in 1..Len(losers) |->
        RedeemResult(TRUE, losers[k], 0, 0, None,
                     Some(Err("Losing position - marked as resolved", None)))]

\* redeem_all after its winners: the losers of the local scan marked
\* resolved (if pos.get("source") != "data_api").
resolve_local_losers_never(losers, f) == f

RECURSIVE resolve_local_losers(_, _)
resolve_local_losers(losers, f) ==
    IF losers = <<>> THEN f
    ELSE resolve_local_losers(Tail(losers),
            IF Head(losers).source # "data_api"
            THEN StoreUpdateStatus(f, Head(losers).position_id, "resolved")
            ELSE f)

\* redeem_all after a confirmed redeem: the record of a winner of the local
\* scan gets status redeemed and the note.
mark_redeemed_oldest(f, pos, tx_hash, t) == StoreUpdateStatus(f, Uuid(1), "redeemed")

mark_redeemed(f, pos, tx_hash, t) ==
    IF pos.source # "data_api"
    THEN StoreUpdateNotes(StoreUpdateStatus(f, pos.position_id, "redeemed"),
                          pos.position_id,
                          Some(RedeemNote(pos.redeemable_usd, tx_hash, t)))
    ELSE f

\* if dry_run: ... return [] (after the winners are listed)
dry_run_ignored(dry_run) == FALSE

dry_run_returns(dry_run) == dry_run

\* The winner the loop of redeem_all turns to after winner w of n (the
\* except clause records the failure and the loop goes on).
redeem_next_abort(w, n, ok) == IF ok THEN w + 1 ELSE n + 1

redeem_next(w, n, ok) == w + 1

\* The state of a redeem command.  phase: idle, scan, feed, classify,
\* redeem, done; cmd: scan or execute; open: the records get_open gave;
\* i: the record the scan is at; redeemable: the scan result so far;
\* winners, losers, w: the winners, the losers, the winner to redeem next;
\* results: the results so far; calls: the entries redeem_position was
\* called for; raised: the command ended with an exception; exit_code: what
\* the command returned; pre, txs0: the store and the length of the chain
\* log when the command began.
ExState(phase, cmd, dry_run, onchain, open, i, redeemable, winners, losers, w, results, calls, raised, exit_code, pre, txs0) ==
    [phase |-> phase, cmd |-> cmd, dry_run |-> dry_run, onchain |-> onchain,
     open |-> open, i |-> i, redeemable |-> redeemable, winners |-> winners,
     losers |-> losers, w |-> w, results |-> results, calls |-> calls,
     raised |-> raised, exit_code |-> exit_code, pre |-> pre, txs0 |-> txs0]

ExIdle ==
    ExState("idle", "none", FALSE, FALSE, <<>>, 1, <<>>, <<>>, <<>>, 1, <<>>, <<>>,
            FALSE, 0, Missing, 0)

\* Inputs of the buy command.
Sides == {"YES", "NO", "yes", "no", "maybe"}
ArgSides == {"YES", "NO", "yes", "no"}
Amounts == {50}

\* The environments of the hedge sell a trade saga is run in: filled at
\* once, filled on a retry, blocked without a proxy, blocked until the
\* retries run out, no liquidity, another error, no retries configured,
\* client library missing.
HedgeEnv(import_ok, proxy, retries, script) ==
    [import_ok |-> import_ok, proxy |-> proxy, retries |-> retries, script |-> script]

HedgeFilled == HedgeEnv(TRUE, FALSE, CLOB_MAX_RETRIES, <<"ok">>)
HedgeNoMatch == HedgeEnv(TRUE, FALSE, CLOB_MAX_RETRIES, <<"no match">>)

HedgeEnvs ==
    {HedgeFilled, HedgeNoMatch,
     HedgeEnv(TRUE, TRUE, CLOB_MAX_RETRIES, <<"403 cloudflare", "ok">>),
     HedgeEnv(TRUE, FALSE, CLOB_MAX_RETRIES, <<"403 cloudflare", "ok">>),
     HedgeEnv(TRUE, TRUE, CLOB_MAX_RETRIES, <<"403 cloudflare">>),
     HedgeEnv(TRUE, TRUE, CLOB_MAX_RETRIES, <<"timeout">>),
     HedgeEnv(TRUE, FALSE, 0, <<"ok">>),
     HedgeEnv(FALSE, FALSE, CLOB_MAX_RETRIES, <<"ok">>)}

BuyEnv(unlocked, balance, market, split, sell) ==
    [unlocked |-> unlocked, balance |-> balance, market |-> market,
     split |-> split, sell |-> sell]

\* The environments of a buy of amount on market m, one for each way the
\* call can go; what a path does not read is held at a fixed value.
BuyEnvs(m, amount) ==
    {BuyEnv(FALSE, Some(amount), None, "not_sent", HedgeFilled)}
    \cup {BuyEnv(TRUE, b, None, "not_sent", HedgeFilled) :
             b \in {None, Some(amount - 1), Some(amount)}}
    \cup {BuyEnv(TRUE, Some(amount), Some(Market(m, TRUE)), o, HedgeFilled) :
             o \in TxOutcomes \ {"success"}}
    \cup {BuyEnv(TRUE, Some(amount), Some(Market(m, FALSE)), "success", HedgeFilled)}
    \cup {BuyEnv(TRUE, Some(amount + 1), Some(Market(m, TRUE)), "success", h) :
             h \in HedgeEnvs}

\* The buys in a sequence of commands: on market m1, the balance short,
\* the split reverted, the split confirmed with the hedge filled or not.
RunMarkets == {"m1"}

RunBuyEnvs(m, amount) ==
    {BuyEnv(TRUE, Some(amount - 1), None, "not_sent", HedgeFilled)}
    \cup {BuyEnv(TRUE, Some(amount), Some(Market(m, TRUE)), o, HedgeFilled) :
             o \in {"reverted"}}
    \cup {BuyEnv(TRUE, Some(amount), Some(Market(m, TRUE)), "success", h) :
             h \in {HedgeFilled, HedgeNoMatch}}

\* The trace of a buy: the command run (cmd), whether buy_position was
\* called, its inputs and outcome, the exit code of the command, the store
\* and the length of the chain log before the call.
BuyTrace(cmd, called, position, skip, env, out, exit_code, pre, txs0) ==
    [cmd |-> cmd, called |-> called, position |-> position, skip |-> skip,
     unlocked |-> env.unlocked, balance |-> env.balance, sell |-> env.sell,
     raised |-> out.raised, result |-> out.result, orders |-> out.orders,
     exit_code |-> exit_code, pre |-> pre, txs0 |-> txs0]

NoEnv == BuyEnv(FALSE, None, None, "not_sent", HedgeFilled)
NoOutcome == BuyOutcome("none", Failure("", "", 0, Err("", None)), <<>>, 0)
BuyIdle == BuyTrace("none", FALSE, "", FALSE, NoEnv, NoOutcome, 0, Missing, 0)

\* cmd_buy with the side from sides and the environment from envs(m, amount),
\* all of BuyEnvs or the few of RunBuyEnvs: buy_position, then the record
\* of the position.
CmdBuyWith(sides, all) ==
    \E m \in (IF all THEN Markets ELSE RunMarkets), side \in sides, amount \in Amounts,
       skip \in (IF all THEN BOOLEAN ELSE {FALSE}) :
      \E env \in (IF all THEN BuyEnvs(m, amount) ELSE RunBuyEnvs(m, amount)) :
        LET out == IF env.unlocked
                   THEN buy_position(m, side, amount, skip, env, Len(chain) + 1)
                   ELSE NoOutcome
            ok == env.unlocked /\ out.raised = "none" /\ out.result.success
            r == out.result
            entry == PositionEntry(Uuid(nextId), r.market_id, r.question, r.position,
                                   r.wanted_token_id, now, r.amount, r.entry_price,
                                   r.split_tx[1], r.clob_order_id, r.clob_filled)
        IN /\ chain' = chain \o out.txs
           /\ file' = IF ok THEN StoreAdd(file, entry) ELSE file
           /\ nextId' = IF ok THEN nextId + 1 ELSE nextId
           /\ now' = IF ok THEN now + 1 ELSE now
           /\ buy' = BuyTrace("cmd_buy", env.unlocked, side, skip, env, out,
                              IF ok THEN 0 ELSE 1, file, Len(chain))
           /\ ex' = ExIdle
           /\ UNCHANGED <<tmp, lock, th, hist>>

\* A call of TradeExecutor.buy_position on its own.
BuyPositionWith(sides, all) ==
    \E m \in (IF all THEN Markets ELSE RunMarkets), side \in sides, amount \in Amounts,
       skip \in (IF all THEN BOOLEAN ELSE {FALSE}) :
      \E env \in (IF all THEN BuyEnvs(m, amount) ELSE RunBuyEnvs(m, amount)) :
        LET out == buy_position(m, side, amount, skip, env, Len(chain) + 1)
        IN /\ chain' = chain \o out.txs
           /\ buy' = BuyTrace("buy_position", TRUE, side, skip, env, out, 0,
                              file, Len(chain))
           /\ ex' = ExIdle
           /\ UNCHANGED <<file, tmp, now, nextId, lock, th, hist>>

----------------------------------------------------------------------------
(* SpecBuy: one buy, in every environment, on a store an earlier run left *)

\* The record and the chain log a filled buy of YES on m1 leaves.
EarlierEntry ==
    PositionEntry(Uuid(1), "m1", Question("m1"), "YES", Token("m1", "YES"), 1, 50,
                  YesPrice("m1"), 1, Some(OrderId), TRUE)
EarlierChain == <<Tx("split", Cond("m1"), "success")>>

InitBuy ==
    /\ \/ /\ file \in {Missing, Undecodable, Doc(<<>>)}
          /\ chain = <<>>
          /\ now = 1
          /\ nextId = 1
       \/ /\ file = Doc(<<EarlierEntry>>)
          /\ chain = EarlierChain
          /\ now = 2
          /\ nextId = 2
    /\ tmp = Missing
    /\ buy = BuyIdle
    /\ ex = ExIdle
    /\ lock = 0
    /\ th = <<>>
    /\ hist = <<>>

CmdBuy ==
    /\ buy.cmd = "none"
    /\ CmdBuyWith(ArgSides, TRUE)

BuyPositionCall ==
    /\ buy.cmd = "none"
    /\ BuyPositionWith(Sides, TRUE)

NextBuy ==
    \/ CmdBuy
    \/ BuyPositionCall

SpecBuy == InitBuy /\ [][NextBuy]_vars

----------------------------------------------------------------------------
(* Spec: the sagas, one command after another *)

RunSides == {"YES", "no"}

\* cmd_buy in a sequence of commands.
CmdBuyRun ==
    /\ ex.phase \in {"idle", "done"}
    /\ Len(chain) < MaxTx
    /\ Len(Coll(file)) < MaxRecords
    /\ CmdBuyWith(RunSides, FALSE)

\* The phase after the local scan.
AfterScan(onchain) == IF onchain THEN "feed" ELSE "classify"

\* cmd_scan / cmd_execute up to the first record of the local scan: the
\* wallet check, then storage.get_open().  all: every environment, or
\* those of a sequence of commands.
ExStartWith(all) ==
    /\ \E cmd \in {"scan", "execute"}, dry_run \in BOOLEAN, onchain \in BOOLEAN,
          unlocked \in (IF all THEN BOOLEAN ELSE {TRUE}) :
         /\ cmd = "scan" => ~dry_run
         /\ LET positions == get_open(file)
            IN ex' = IF ~unlocked
                     THEN ExState("done", cmd, dry_run, onchain, <<>>, 1, <<>>, <<>>, <<>>,
                                  1, <<>>, <<>>, FALSE, 1, file, Len(chain))
                     ELSE ExState(IF positions = <<>> THEN AfterScan(onchain) ELSE "scan",
                                  cmd, dry_run, onchain, positions, 1, <<>>, <<>>, <<>>,
                                  1, <<>>, <<>>, FALSE, 0, file, Len(chain))
    /\ buy' = BuyIdle
    /\ UNCHANGED <<file, tmp, chain, now, nextId, lock, th, hist>>

\* scan_redeemable: one turn of its loop.  A single command keeps in hist
\* the records the scan examined, each with its environment.
ScanStepWith(all) ==
    /\ ex.phase = "scan"
    /\ LET pos == ex.open[ex.i] IN
       \E env \in (IF all THEN ScanEnvs(pos.market_id) ELSE RunScanEnvs(pos.market_id)) :
         LET found == scan_one(pos, env)
             next == scan_next(ex.i, Len(ex.open), scan_raised(pos, env))
         IN /\ ex' = [ex EXCEPT !.redeemable = IF IsNone(found) THEN @
                                               ELSE Append(@, found[1]),
                                !.i = next,
                                !.phase = IF next > Len(ex.open)
                                          THEN AfterScan(ex.onchain) ELSE "scan"]
            /\ hist' = IF all THEN Append(hist, [pos |-> pos, env |-> env]) ELSE hist
    /\ UNCHANGED <<file, tmp, chain, now, nextId, buy, lock, th>>

\* scan_all: scan_redeemable_onchain and the merge.
FeedStepWith(all) ==
    /\ ex.phase = "feed"
    /\ \E fe \in (IF all THEN FeedEnvs ELSE RunFeedEnvs) :
         ex' = IF ~fe.up
               THEN [ex EXCEPT !.phase = "done", !.raised = TRUE, !.exit_code = 1]
               ELSE [ex EXCEPT !.phase = "classify",
                               !.redeemable = scan_all(@,
                                   scan_redeemable_onchain(fe.redeemable, fe.mergeable))]
    /\ UNCHANGED <<file, tmp, chain, now, nextId, buy, lock, th, hist>>

\* cmd_scan after its scan; redeem_all from the scan to the first redeem:
\* nothing found, no winner (the losers are marked resolved), dry run.
Classify ==
    /\ ex.phase = "classify"
    /\ LET winners == Winners(ex.redeemable)
           losers == Losers(ex.redeemable)
       IN IF ex.cmd = "scan" \/ ex.redeemable = <<>>
          THEN /\ ex' = [ex EXCEPT !.phase = "done", !.winners = winners, !.losers = losers]
               /\ file' = file
          ELSE IF winners = <<>>
          THEN /\ ex' = [ex EXCEPT !.phase = "done", !.winners = winners, !.losers = losers,
                                   !.results = loser_results(losers)]
               /\ file' = resolve_losers(losers, file)
          ELSE IF dry_run_returns(ex.dry_run)
          THEN /\ ex' = [ex EXCEPT !.phase = "done", !.winners = winners, !.losers = losers]
               /\ file' = file
          ELSE /\ ex' = [ex EXCEPT !.phase = "redeem", !.winners = winners,
                                   !.losers = losers, !.w = 1]
               /\ file' = file
    /\ UNCHANGED <<tmp, chain, now, nextId, buy, lock, th, hist>>

\* redeem_all: one turn of the loop over the winners; after the last
\* winner the losers of the local scan are marked resolved.  At MaxTx
\* transactions the node takes no more (the call raises before it sends).
RedeemStepWith(all) ==
    /\ ex.phase = "redeem"
    /\ \E outcome \in (IF Len(chain) >= MaxTx THEN {"not_sent"}
                       ELSE IF all THEN TxOutcomes ELSE RunTxOutcomes) :
         LET pos == ex.winners[ex.w]
             sent == send_tx("redeem", pos.condition_id[1], outcome, Len(chain) + 1)
             ok == IsNone(sent.error)
             local == pos.source # "data_api"
             marked == IF ok THEN mark_redeemed(file, pos, sent.tx_hash[1], now) ELSE file
             result == IF ok
                       THEN RedeemResult(TRUE, pos, pos.redeemable_usd, pos.redeemable_usd,
                                         sent.tx_hash, None)
                       ELSE RedeemResult(FALSE, pos, pos.redeemable_usd, 0, None, sent.error)
             next == redeem_next(ex.w, Len(ex.winners), ok)
             last == next > Len(ex.winners)
         IN /\ chain' = chain \o sent.txs
            /\ now' = IF ok /\ local THEN now + 1 ELSE now
            /\ file' = IF last THEN resolve_local_losers(ex.losers, marked) ELSE marked
            /\ ex' = [ex EXCEPT !.results = Append(@, result),
                                !.calls = Append(@, pos),
                                !.w = next,
                                !.phase = IF last THEN "done" ELSE "redeem"]
    /\ UNCHANGED <<tmp, nextId, buy, lock, th, hist>>

ExStartRun ==
    /\ ex.phase \in {"idle", "done"}
    /\ ExStartWith(FALSE)

ScanStepRun == ScanStepWith(FALSE)
FeedStepRun == FeedStepWith(FALSE)
RedeemStepRun == RedeemStepWith(FALSE)

Init ==
    /\ file = Missing
    /\ tmp = Missing
    /\ chain = <<>>
    /\ now = 1
    /\ nextId = 1
    /\ buy = BuyIdle
    /\ ex = ExIdle
    /\ lock = 0
    /\ th = <<>>
    /\ hist = <<>>

Next ==
    \/ CmdBuyRun
    \/ ExStartRun
    \/ ScanStepRun
    \/ FeedStepRun
    \/ Classify
    \/ RedeemStepRun

Spec == Init /\ [][Next]_vars

----------------------------------------------------------------------------
(* Claims about the trade saga *)

\* The transactions the last buy sent.
BuyTxs == {i \in 1..Len(chain) : i > buy.txs0}

\* The split of the last buy was mined with status 1 within the wait.
SplitConfirmed ==
    \E i \in BuyTxs : chain[i].kind = "split" /\ chain[i].receipt = "success"

\* The hedge sell of the last buy was made and its last order was accepted.
HedgeFilledInRun ==
    buy.orders > 0 /\ Answer(buy.sell.script, buy.orders) = "ok"

\* The records the last buy appended to the store.
BuyAppended == SubSeq(Coll(file), Len(Coll(buy.pre)) + 1, Len(Coll(file)))

\* The store holds what it held before the last buy, then BuyAppended.
BuyKeepsPrefix ==
    /\ Len(Coll(file)) >= Len(Coll(buy.pre))
    /\ SubSeq(Coll(file), 1, Len(Coll(buy.pre))) = Coll(buy.pre)

\* C1: a run of the buy command appends exactly one record to the store if
\* its split was confirmed with success status and none otherwise, whatever
\* the steps after the split do; a record of a buy whose hedge sell did not
\* fill has clob_filled = false and no clob_order_id.
C1_OneRecordPerConfirmedSplit ==
    buy.cmd = "cmd_buy" =>
        /\ BuyKeepsPrefix
        /\ SplitConfirmed =>
              /\ Len(BuyAppended) = 1
              /\ ~HedgeFilledInRun =>
                    /\ BuyAppended[1].clob_filled = FALSE
                    /\ BuyAppended[1].clob_order_id = None
        /\ ~SplitConfirmed => file = buy.pre

\* A buy command whose split confirmed and whose hedge sell was made and
\* failed (an error or an exception of the order-book client).
C1_Witness ==
    /\ buy.cmd = "cmd_buy"
    /\ SplitConfirmed
    /\ ~buy.skip
    /\ ~HedgeFilledInRun
    /\ buy.sell # HedgeFilled
    /\ Len(BuyAppended) = 1
    /\ Coll(buy.pre) # <<>>

\* C2: once the split has confirmed, buy_position returns success = true
\* whatever the hedge sell does; a hedge that did not fill shows as
\* clob_filled = false with no order id, and a hedge that was made and
\* failed as the error of the result.
C2_HedgeFailureKeepsSuccess ==
    (buy.called /\ SplitConfirmed) =>
        /\ buy.raised = "none"
        /\ buy.result.success
        /\ \E i \in BuyTxs : buy.result.split_tx = Some(i)
        /\ ~HedgeFilledInRun =>
              /\ buy.result.clob_filled = FALSE
              /\ buy.result.clob_order_id = None
        /\ (~HedgeFilledInRun /\ ~buy.skip /\ buy.result.wanted_token_id # NoTokenId)
              => buy.result.error # None

\* buy_position, split confirmed, the order-book client raised.
C2_Witness ==
    /\ buy.cmd = "buy_position"
    /\ SplitConfirmed
    /\ ~buy.skip
    /\ buy.result.wanted_token_id # NoTokenId
    /\ buy.sell.retries = 0
    /\ buy.result.success
    /\ buy.result.error = Some(Err("TypeError", None))

\* A guard clause of buy_position applies to the last call.
GuardApplies ==
    \/ Upper(buy.position) \notin {"YES", "NO"}
    \/ ~buy.unlocked
    \/ (~IsNone(buy.balance) /\ buy.balance[1] < buy.result.amount)

GuardErrors ==
    {Err("Position must be YES or NO", None), Err("Wallet not unlocked", None),
     Err("Insufficient USDC.e", None)}

\* C3: with a side that is not YES or NO, a wallet that is not configured
\* or a balance below the amount, buy_position returns success = false with
\* the error of the guard, and nothing was done: no transaction sent, no
\* order placed, no record written.
C3_GuardsHaveNoSideEffect ==
    (buy.cmd # "none" /\ GuardApplies) =>
        /\ buy.called =>
              /\ buy.raised = "none"
              /\ ~buy.result.success
              /\ ~IsNone(buy.result.error)
              /\ buy.result.error[1] \in GuardErrors
        /\ buy.cmd = "cmd_buy" => buy.exit_code = 1
        /\ BuyTxs = {}
        /\ buy.orders = 0
        /\ file = buy.pre

\* buy_position with a configured wallet, a valid side and a balance one
\* dollar short.
C3_Witness ==
    /\ buy.cmd = "buy_position"
    /\ buy.unlocked
    /\ Upper(buy.position) = "NO"
    /\ buy.balance = Some(buy.result.amount - 1)
    /\ buy.result.error = Some(Err("Insufficient USDC.e", None))
    /\ Coll(buy.pre) # <<>>

----------------------------------------------------------------------------
(* Claims about sequences of commands *)

\* The transactions the last scan or execute command sent.
ExTxs == {i \in 1..Len(chain) : i > ex.txs0}

\* C4: a split or a redeem whose receipt reports a status other than
\* success fails with an error that carries the hash of the transaction;
\* a call sends at most one transaction, and a run calls redeem at most
\* once for an item: a buy ends in failure with no record written, an
\* execute run records the failure of the item and sends nothing more for
\* it.
C4_FailedReceiptFailsOnce ==
    /\ buy.called =>
          /\ Cardinality(BuyTxs) <= 1
          /\ \A i \in BuyTxs : chain[i].receipt = "reverted" =>
                /\ buy.raised = "none"
                /\ ~buy.result.success
                /\ buy.result.error = Some(Err("Split failed", Some(i)))
                /\ buy.result.split_tx = None
                /\ buy.exit_code = 1
                /\ file = buy.pre
    /\ ex.cmd # "none" =>
          /\ Cardinality(ExTxs) <= Len(ex.calls)
          /\ \A j, k \in 1..Len(ex.calls) :
                j # k => ex.calls[j].position_id # ex.calls[k].position_id
          /\ \A i \in ExTxs : chain[i].receipt = "reverted" =>
                \E k \in 1..Len(ex.calls) :
                  /\ ex.results[k].position_id = ex.calls[k].position_id
                  /\ ~ex.results[k].success
                  /\ ex.results[k].tx_hash = None
                  /\ ex.results[k].error = Some(Err("Redeem failed", Some(i)))

\* An execute run ended; a redeem it sent was reverted, and so was the
\* split of an earlier buy.
C4_Witness ==
    /\ ex.cmd = "execute"
    /\ ex.phase = "done"
    /\ \E i \in ExTxs : chain[i].kind = "redeem" /\ chain[i].receipt = "reverted"
    /\ \E i \in 1..ex.txs0 : chain[i].kind = "split" /\ chain[i].receipt = "reverted"

\* C5: across buy, scan and execute runs a record keeps its place and its
\* id in the store, and a step changes its status only from open to
\* resolved or from open to redeemed; the status of a resolved or redeemed
\* record is never changed.
C5_StatusOnlyForward ==
    [][\A i \in 1..Len(Coll(file)) :
         /\ i <= Len(Coll(file'))
         /\ Coll(file')[i].position_id = Coll(file)[i].position_id
         /\ \/ Coll(file')[i].status = Coll(file)[i].status
            \/ /\ Coll(file)[i].status = "open"
               /\ Coll(file')[i].status \in {"resolved", "redeemed"}]_vars

\* An execute run on a store that already held a redeemed record marked
\* an open record resolved.
C5_Witness ==
    /\ ex.cmd = "execute"
    /\ ex.phase = "done"
    /\ \E i, j \in 1..Len(Coll(ex.pre)) :
         /\ Coll(ex.pre)[i].status = "redeemed"
         /\ Coll(file)[i].status = "redeemed"
         /\ Coll(ex.pre)[j].status = "open"
         /\ Coll(file)[j].status = "resolved"

----------------------------------------------------------------------------
(* SpecCalls: store calls made one after the other by one caller, on any *)
(* content of the backing file                                           *)

MaxCalls == 3

\* The exception of positions.append(...) on what load_all gave.
append_error(l) ==
    IF l.raised # "none" THEN l.raised
    ELSE IF l.t # "list" THEN "AttributeError"
    ELSE "none"

\* The exception of "for p in positions: p.get(...)" on what load_all
\* gave: the keys of an object are strings, a number is not iterable.
iterate_error(l) ==
    IF l.raised # "none" THEN l.raised
    ELSE IF l.t = "dict" THEN "AttributeError"
    ELSE IF l.t = "int" THEN "TypeError"
    ELSE "none"

\* A record of a store call: the call, its arguments (entry holds the
\* record of add, the status of update_status, the notes of update_notes),
\* the file before it,
\* the exception it raised and the value it returned.
CallRecord(call, entry, pid, pre, raised, value) ==
    [call |-> call, entry |-> entry, pid |-> pid, pre |-> pre, raised |-> raised,
     value |-> value]

\* Records to add: the third has the id of the first and another time.
StoreEntry(n, t) ==
    PositionEntry(Uuid(n), "m1", Question("m1"), "YES", Token("m1", "YES"), t, 50,
                  YesPrice("m1"), t, None, FALSE)

CallEntries == {StoreEntry(1, 1), StoreEntry(2, 2), StoreEntry(1, 3)}
CallIds == {Uuid(1), Uuid(2)}

FileKinds == {Missing, Undecodable, BadUtf8, JsonObject, JsonScalar, Doc(<<>>),
              Doc(<<StoreEntry(1, 1)>>)}

\* hist: the number of calls made and the records of the last two.
Logged(rec) ==
    [n |-> hist.n + 1,
     last |-> IF hist.last = <<>> THEN <<rec>> ELSE <<hist.last[Len(hist.last)], rec>>]

InitCalls ==
    /\ file \in FileKinds
    /\ tmp = Missing
    /\ chain = <<>>
    /\ now = 1
    /\ nextId = 1
    /\ buy = BuyIdle
    /\ ex = ExIdle
    /\ lock = 0
    /\ th = <<>>
    /\ hist = [n |-> 0, last |-> <<>>]

\* storage.load_all()
CallLoadAll ==
    /\ hist.n < MaxCalls
    /\ hist' = Logged(CallRecord("load_all", None, None, file, load_all(file).raised,
                                 load_all(file)))
    /\ UNCHANGED <<file, tmp, chain, now, nextId, buy, ex, lock, th>>

\* storage.add(entry)
CallAdd ==
    /\ hist.n < MaxCalls
    /\ \E entry \in CallEntries :
         LET l == load_all(file)
             raised == append_error(l)
         IN /\ file' = IF raised = "none" THEN Doc(add_mutate(l.items, entry)) ELSE file
            /\ hist' = Logged(CallRecord("add", Some(entry), None, file, raised, None))
    /\ UNCHANGED <<tmp, chain, now, nextId, buy, ex, lock, th>>

\* storage.get(position_id)
CallGet ==
    /\ hist.n < MaxCalls
    /\ \E pid \in CallIds :
         LET raised == iterate_error(load_all(file))
         IN hist' = Logged(CallRecord("get", None, Some(pid), file, raised,
                                      IF raised = "none" THEN get(file, pid) ELSE None))
    /\ UNCHANGED <<file, tmp, chain, now, nextId, buy, ex, lock, th>>

\* storage.delete(position_id)
CallDelete ==
    /\ hist.n < MaxCalls
    /\ \E pid \in CallIds :
         LET raised == iterate_error(load_all(file))
         IN /\ file' = IF raised = "none" THEN StoreDelete(file, pid) ELSE file
            /\ hist' = Logged(CallRecord("delete", None, Some(pid), file, raised, None))
    /\ UNCHANGED <<tmp, chain, now, nextId, buy, ex, lock, th>>

\* storage.update_status(position_id, status): True when a record has
\* the id, False when none has.
CallUpdateStatus ==
    /\ hist.n < MaxCalls
    /\ \E pid \in CallIds, status \in {"resolved", "redeemed"} :
         LET raised == iterate_error(load_all(file))
         IN /\ file' = IF raised = "none" THEN StoreUpdateStatus(file, pid, status) ELSE file
            /\ hist' = Logged(CallRecord("update_status", Some(status), Some(pid), file,
                                         raised,
                                         raised = "none" /\ FirstIndex(Coll(file), pid) # 0))
    /\ UNCHANGED <<tmp, chain, now, nextId, buy, ex, lock, th>>

\* The notes a caller writes.
CallNotes == {Some("checked"), Some("sold")}

\* storage.update_notes(position_id, notes): True when a record has the
\* id, False when none has.
CallUpdateNotes ==
    /\ hist.n < MaxCalls
    /\ \E pid \in CallIds, notes \in CallNotes :
         LET raised == iterate_error(load_all(file))
         IN /\ file' = IF raised = "none" THEN StoreUpdateNotes(file, pid, notes) ELSE file
            /\ hist' = Logged(CallRecord("update_notes", Some(notes), Some(pid), file,
                                         raised,
                                         raised = "none" /\ FirstIndex(Coll(file), pid) # 0))
    /\ UNCHANGED <<tmp, chain, now, nextId, buy, ex, lock, th>>

NextCalls ==
    \/ CallLoadAll
    \/ CallAdd
    \/ CallGet
    \/ CallDelete
    \/ CallUpdateStatus
    \/ CallUpdateNotes

SpecCalls == InitCalls /\ [][NextCalls]_vars

\* The file holds no array: it is missing or json.loads does not give a
\* list for it.
NotAnArray(f) == f.kind # "array"

\* C9: load_all returns an empty list, and raises nothing, whenever the
\* file is missing or its content is not a well-formed document holding an
\* array.
C9_LoadAllOfCorruptFileIsEmpty ==
    \A i \in 1..Len(hist.last) :
      (hist.last[i].call = "load_all" /\ NotAnArray(hist.last[i].pre)) =>
          /\ hist.last[i].raised = "none"
          /\ hist.last[i].value.t = "list"
          /\ hist.last[i].value.items = <<>>

\* The store holds a collection the calls can work on, and no record of
\* it has the id.
FreshIn(f, pid) ==
    /\ append_error(load_all(f)) = "none"
    /\ FirstIndex(Coll(f), pid) = 0

\* C10: add(r) followed by get(r.position_id) returns a record equal to r,
\* for every record r whose position_id no record of the store has yet
\* and every collection the store held before.
C10_AddThenGet ==
    (/\ Len(hist.last) = 2
     /\ hist.last[1].call = "add"
     /\ hist.last[2].call = "get"
     /\ hist.last[2].pid = Some(hist.last[1].entry[1].position_id)
     /\ FreshIn(hist.last[1].pre, hist.last[1].entry[1].position_id))
    => /\ hist.last[1].raised = "none"
       /\ hist.last[2].raised = "none"
       /\ hist.last[2].value = hist.last[1].entry

\* add of a second record to a store that held one, then get of it.
C10_Witness ==
    /\ Len(hist.last) = 2
    /\ hist.last[1].call = "add"
    /\ hist.last[2].call = "get"
    /\ hist.last[1].entry = Some(StoreEntry(2, 2))
    /\ hist.last[2].pid = Some(Uuid(2))
    /\ Len(Coll(hist.last[1].pre)) = 1
    /\ hist.last[2].value = Some(StoreEntry(2, 2))

----------------------------------------------------------------------------
(* SpecStore: threads of one process calling the store, step by step, and *)
(* the process being killed                                               *)

MaxThreads == 2
Threads == 1..MaxThreads

\* A store call and its arguments.
StoreOp(call, entry, pid, arg) == [call |-> call, entry |-> entry, pid |-> pid, arg |-> arg]

NoOp == StoreOp("none", None, None, None)

MutatorOps ==
    {StoreOp("add", Some(StoreEntry(2, 2)), None, None),
     StoreOp("update_status", None, Some(Uuid(1)), Some("resolved")),
     StoreOp("update_notes", None, Some(Uuid(1)), Some("checked")),
     StoreOp("delete", None, Some(Uuid(1)), None)}

ReaderOps ==
    {StoreOp("load_all", None, None, None),
     StoreOp("get", None, Some(Uuid(1)), None),
     StoreOp("get_by_market", None, None, Some("m1")),
     StoreOp("get_open", None, None, None)}

\* The collection a mutating call makes of the one it loaded.
Apply(op, positions) ==
    CASE op.call = "add" -> add_mutate(positions, op.entry[1])
      [] op.call = "update_status" -> update_status_mutate(positions, op.pid[1], op.arg[1])
      [] op.call = "update_notes" -> update_notes_mutate(positions, op.pid[1], op.arg)
      [] op.call = "delete" -> delete_mutate(positions, op.pid[1])
      [] OTHER -> positions

\* Whether the call reaches save_all: add always, update_status and
\* update_notes when a record has the id, delete when it removed one.
Saves(op, positions) ==
    CASE op.call = "add" -> TRUE
      [] op.call = "delete" -> Len(delete_mutate(positions, op.pid[1])) < Len(positions)
      [] OTHER -> FirstIndex(positions, op.pid[1]) # 0

\* What a reading call returns when its load_all saw the content f.
ReaderValue(op, f) ==
    CASE op.call = "get" -> get(f, op.pid[1])
      [] op.call = "get_by_market" -> get_by_market(f, op.arg[1])
      [] op.call = "get_open" -> get_open(f)
      [] OTHER -> Coll(f)

\* A thread: where it is in its call, the call, the collection it loaded
\* (for a reading call at its return: the value returned), for a reading
\* call the number of renames made when it was called and when its
\* load_all ended, whether it has renamed.
Thread(pc, op, loaded, from, upto, saved) ==
    [pc |-> pc, op |-> op, loaded |-> loaded, from |-> from, upto |-> upto,
     saved |-> saved]

IdleThread == Thread("idle", NoOp, <<>>, 0, 0, FALSE)

PositionsPath == "positions.json"

\* Mutant: save_all writes the file itself.
with_suffix_same(path) == path

\* temp = self.path.with_suffix(".tmp")
with_suffix(path) == "positions.tmp"

\* Mutant: the lock is not waited for.
lock_ignored(l) == TRUE

\* _storage_lock can be taken.
lock_free(l) == l = 0

\* path.write_text: the path holds content afterwards.
WriteTo(path, content) ==
    IF path = PositionsPath
    THEN file' = content /\ tmp' = tmp
    ELSE tmp' = content /\ file' = file

\* temp.replace(self.path): the file is what temp was, and temp is gone.
Replace(temp) ==
    IF temp = PositionsPath
    THEN UNCHANGED <<file, tmp>>
    ELSE file' = tmp /\ tmp' = Missing

\* A mutating call between its load_all and its return.
InFlight(t) ==
    /\ th[t].op \in MutatorOps
    /\ th[t].pc \in {"loaded", "writing", "written", "release"}

InitStore ==
    /\ file \in {Missing, Doc(<<StoreEntry(1, 1)>>)}
    /\ tmp = Missing
    /\ chain = <<>>
    /\ now = 1
    /\ nextId = 1
    /\ buy = BuyIdle
    /\ ex = ExIdle
    /\ lock = 0
    /\ th = [t \in Threads |-> IdleThread]
    /\ hist = [started |-> 0, commits |-> <<file>>, calls |-> <<>>, kill |-> None,
               contended |-> FALSE]

Others == <<chain, now, nextId, buy, ex>>

\* A thread of the process calls the store, while the process lives; the
\* threads are alike, the idle one of lowest number takes the call.
\* hist.contended: a mutating call was made while another held the lock.
StartCall ==
    /\ hist.started < MaxCalls
    /\ hist.kill = None
    /\ \E t \in Threads, op \in MutatorOps \cup ReaderOps :
         /\ th[t].pc = "idle"
         /\ \A u \in Threads : u < t => th[u].pc # "idle"
         /\ th' = [th EXCEPT ![t] = Thread(IF op \in MutatorOps THEN "acquire" ELSE "exists",
                                          op, <<>>,
                                          IF op \in ReaderOps THEN Len(hist.commits) ELSE 0,
                                          0, FALSE)]
         /\ hist' = [hist EXCEPT !.started = @ + 1,
                                 !.contended = @ \/ (op \in MutatorOps /\ lock # 0)]
    /\ UNCHANGED <<file, tmp, lock, Others>>

\* with _storage_lock:
Acquire ==
    /\ \E t \in Threads :
         /\ th[t].pc = "acquire"
         /\ lock_free(lock)
         /\ lock' = t
         /\ th' = [th EXCEPT ![t].pc = "exists"]
    /\ UNCHANGED <<file, tmp, hist, Others>>

\* The end of load_all in thread t, which saw the content f: a mutating
\* call goes on with the collection, a reading call returns.
LoadedBy(t, f) ==
    /\ th' = IF th[t].op \in MutatorOps
             THEN [th EXCEPT ![t].pc = "loaded", ![t].loaded = Coll(f)]
             ELSE [th EXCEPT ![t].pc = "returned",
                             ![t].loaded = ReaderValue(th[t].op, f),
                             ![t].upto = Len(hist.commits)]
    /\ hist' = hist

\* load_all: if not self.path.exists(): return []
LoadExists ==
    /\ \E t \in Threads :
         /\ th[t].pc = "exists"
         /\ IF file.kind = "missing"
            THEN LoadedBy(t, Missing)
            ELSE th' = [th EXCEPT ![t].pc = "read"] /\ hist' = hist
    /\ UNCHANGED <<file, tmp, lock, Others>>

\* load_all: json.loads(self.path.read_text())
LoadRead ==
    /\ \E t \in Threads :
         /\ th[t].pc = "read"
         /\ LoadedBy(t, file)
    /\ UNCHANGED <<file, tmp, lock, Others>>

\* The change in memory, then save_all up to the opening of temp for
\* writing, which empties it; a call that found nothing to change goes to
\* its return.
WriteOpen ==
    /\ \E t \in Threads :
         /\ th[t].pc = "loaded"
         /\ IF Saves(th[t].op, th[t].loaded)
            THEN /\ WriteTo(with_suffix(PositionsPath), Undecodable)
                 /\ th' = [th EXCEPT ![t].pc = "writing"]
            ELSE /\ UNCHANGED <<file, tmp>>
                 /\ th' = [th EXCEPT ![t].pc = "release"]
    /\ UNCHANGED <<lock, hist, Others>>

\* temp.write_text(json.dumps(positions, indent=2)): the text is written.
WriteDone ==
    /\ \E t \in Threads :
         /\ th[t].pc = "writing"
         /\ WriteTo(with_suffix(PositionsPath), Doc(Apply(th[t].op, th[t].loaded)))
         /\ th' = [th EXCEPT ![t].pc = "written"]
    /\ UNCHANGED <<lock, hist, Others>>

\* temp.replace(self.path)
Rename ==
    /\ \E t \in Threads :
         /\ th[t].pc = "written"
         /\ Replace(with_suffix(PositionsPath))
         /\ th' = [th EXCEPT ![t].pc = "release", ![t].saved = TRUE]
    /\ hist' = [hist EXCEPT !.commits = Append(@, file')]
    /\ UNCHANGED <<lock, Others>>

\* The end of the with block and the return.
Release ==
    /\ \E t \in Threads :
         /\ th[t].pc = "release"
         /\ th' = [th EXCEPT ![t] = IdleThread]
         /\ hist' = [hist EXCEPT !.calls = Append(@, th[t].op)]
    /\ lock' = 0
    /\ UNCHANGED <<file, tmp, Others>>

\* The caller of a reading call has its value.
Return ==
    /\ \E t \in Threads :
         /\ th[t].pc = "returned"
         /\ th' = [th EXCEPT ![t] = IdleThread]
    /\ UNCHANGED <<file, tmp, lock, hist, Others>>

\* The process is killed: its threads and its lock are gone, the files
\* stay as they are.  hist.kill: the renames made so far and, for each
\* mutating call under way, the collection it loaded, the one it was
\* writing, and whether it had renamed.
Kill ==
    /\ hist.kill = None
    /\ \E t \in Threads : th[t].pc # "idle"
    /\ th' = [t \in Threads |-> IdleThread]
    /\ lock' = 0
    /\ hist' = [hist EXCEPT !.kill = Some(
                    [at |-> Len(hist.commits),
                     calls |-> {[pre |-> th[t].loaded,
                                 post |-> Apply(th[t].op, th[t].loaded),
                                 pc |-> th[t].pc,
                                 renamed |-> th[t].saved] : t \in {u \in Threads : InFlight(u)}}])]
    /\ UNCHANGED <<file, tmp, Others>>

NextStore ==
    \/ StartCall
    \/ Acquire
    \/ LoadExists
    \/ LoadRead
    \/ WriteOpen
    \/ WriteDone
    \/ Rename
    \/ Release
    \/ Return
    \/ Kill

SpecStore == InitStore /\ [][NextStore]_vars

----------------------------------------------------------------------------
(* Claims about the store *)

\* C6: when the process is killed during a mutating call, load_all
\* afterwards returns without raising exactly the collection the call
\* loaded if the rename had not been made, and exactly the collection the
\* call was writing if it had; the file is always the one the last rename
\* (or the start) left, never a partly written one.
C6_KillLeavesPreOrPost ==
    (hist.kill # None /\ Len(hist.commits) = hist.kill[1].at) =>
        /\ load_all(file).raised = "none"
        /\ load_all(file).t = "list"
        /\ file = hist.commits[Len(hist.commits)]
        /\ \A c \in hist.kill[1].calls :
              load_all(file).items = IF c.renamed THEN c.post ELSE c.pre

\* Killed after a second mutation had begun to write its temporary file:
\* the file holds what the first one left.
C6_Witness ==
    /\ hist.kill # None
    /\ Len(hist.commits) = hist.kill[1].at
    /\ Len(hist.commits) > 1
    /\ tmp = Undecodable
    /\ \E c \in hist.kill[1].calls : c.pc = "writing" /\ c.pre # c.post

\* The collections that applying the calls numbered in S, one after the
\* other in some order, makes of positions.
RECURSIVE SeqResults(_, _)
SeqResults(S, positions) ==
    IF S = {} THEN {positions}
    ELSE UNION {SeqResults(S \ {i}, Apply(hist.calls[i], positions)) : i \in S}

\* C7: at most one thread is inside a mutating call's read-modify-write
\* at a time, and once the calls of all threads have returned the
\* collection is the one that applying all the mutating calls in some
\* sequential order gives.
C7_LockSerializesMutations ==
    /\ Cardinality({t \in Threads : th[t].op \in MutatorOps
                                      /\ th[t].pc \notin {"idle", "acquire"}}) <= 1
    /\ (hist.kill = None /\ \A t \in Threads : th[t].pc = "idle") =>
          Coll(file) \in SeqResults(1..Len(hist.calls), Coll(hist.commits[1]))

\* Two mutating calls have both returned and both changed the file; the
\* second was made while the first held the lock.
C7_Witness ==
    /\ hist.kill = None
    /\ hist.contended
    /\ \A t \in Threads : th[t].pc = "idle"
    /\ Len(hist.calls) = 2
    /\ Len(hist.commits) = 3
    /\ hist.started = 2
    /\ hist.calls[1] # hist.calls[2]

\* C8: a reading call returns what it would return on the file as the
\* start or some rename left it, one that was in place at some moment of
\* the call; it never sees a partly written file.
C8_ReaderSeesCommitted ==
    \A t \in Threads :
      th[t].pc = "returned" =>
          \E k \in th[t].from..th[t].upto :
            th[t].loaded = ReaderValue(th[t].op, hist.commits[k])

\* A reading call during which a writer renamed returned the collection
\* after the mutation.
C8_Witness ==
    \E t \in Threads :
      /\ th[t].pc = "returned"
      /\ th[t].from < th[t].upto
      /\ th[t].loaded # ReaderValue(th[t].op, hist.commits[th[t].from])
      /\ th[t].loaded = ReaderValue(th[t].op, hist.commits[th[t].upto])

----------------------------------------------------------------------------
(* Further claims about the store calls *)

\* The last call of the store.
LastCall == hist.last[Len(hist.last)]

\* C11: update_status with an id no record of the store has returns False
\* and changes nothing: the backing file is the one of before the call,
\* with every record, field and place, and no temporary file is written.
C11_UpdateStatusOfUnknownId ==
    (/\ hist.n > 0
     /\ LastCall.call = "update_status"
     /\ FreshIn(LastCall.pre, LastCall.pid[1]))
    => /\ LastCall.raised = "none"
       /\ LastCall.value = FALSE
       /\ file = LastCall.pre
       /\ tmp = Missing

\* update_status with an id that is not in a store holding another record.
C11_Witness ==
    /\ hist.n > 0
    /\ LastCall.call = "update_status"
    /\ LastCall.pid = Some(Uuid(2))
    /\ LastCall.pre = Doc(<<StoreEntry(1, 1)>>)
    /\ LastCall.value = FALSE

----------------------------------------------------------------------------
(* SpecSell: one call of sell_fok in every environment *)

\* The reference prices of a call, in cents.
SellPrices == 0..100

\* hist: the environment and the reference price of the call and, once it
\* is made, what it did and the limit price of the orders it submitted.
InitSell ==
    /\ file = Missing
    /\ tmp = Missing
    /\ chain = <<>>
    /\ now = 1
    /\ nextId = 1
    /\ buy = BuyIdle
    /\ ex = ExIdle
    /\ lock = 0
    /\ th = <<>>
    /\ hist \in {[env |-> e, price |-> p, out |-> None, limit |-> None] :
                    e \in SellEnvs, p \in SellPrices}

\* clob.sell_fok(unwanted_token, amount, unwanted_price)
SellFok ==
    /\ hist.out = None
    /\ LET out == sell_fok(Token("m1", "NO"), 50, hist.price, hist.env)
       IN hist' = [hist EXCEPT !.out = Some(out),
                               !.limit = IF out.attempts > 0
                                         THEN Some(sell_price(hist.price)) ELSE None]
    /\ UNCHANGED <<file, tmp, chain, now, nextId, buy, ex, lock, th>>

NextSell == SellFok

SpecSell == InitSell /\ [][NextSell]_vars

\* The call has been made.
Sold == hist.out # None
SellOut == hist.out[1]

\* C12: with the client library installed, whatever the order-book client
\* answers and whatever the retry bound is set to, sell_fok raises nothing
\* and returns (order_id, true, None) or (None, false, error) with the
\* failure as the error.
C12_SellFokNeverRaises ==
    (Sold /\ hist.env.import_ok) =>
        /\ SellOut.raised = "none"
        /\ SellOut.filled => (SellOut.order_id # None /\ SellOut.error = None)
        /\ ~SellOut.filled => (SellOut.order_id = None /\ SellOut.error # None)

\* The answers to the orders the call submitted before its n-th were all
\* edge blocks.
BlockedBefore(n) ==
    \A j \in 1..(n - 1) : is_cloudflare_block(Answer(hist.env.script, j))

\* C13: sell_fok submits the order at most CLOB_MAX_RETRIES times (the
\* bound as configured, 5 when it is not); an n-th order, n > 1, is
\* submitted only with a proxy configured and after edge blocks (403 with
\* cloudflare or blocked in the text) on all orders before it; a failure
\* of another kind, or any failure without a proxy, is the last attempt
\* and the call returns (None, false, error).
C13_RetryOnlyEdgeBlockWithProxy ==
    Sold =>
        /\ SellOut.attempts <= hist.env.retries
        /\ hist.env.retries <= CLOB_MAX_RETRIES
        /\ \A n \in 2..SellOut.attempts : hist.env.proxy /\ BlockedBefore(n)
        /\ \A n \in 1..hist.env.retries :
              (/\ hist.env.import_ok
               /\ BlockedBefore(n)
               /\ n > 1 => hist.env.proxy
               /\ Answer(hist.env.script, n) # "ok"
               /\ ~(is_cloudflare_block(Answer(hist.env.script, n)) /\ hist.env.proxy))
              => /\ SellOut.attempts = n
                 /\ SellOut.raised = "none"
                 /\ SellOut.order_id = None
                 /\ SellOut.filled = FALSE
                 /\ SellOut.error = Some(sell_error_msg(Answer(hist.env.script, n)))

\* With a proxy, two edge blocks and then a failure for want of
\* liquidity: three orders, the third the last.
C13_Witness ==
    /\ Sold
    /\ hist.env.proxy
    /\ hist.env.retries = CLOB_MAX_RETRIES
    /\ hist.env.script = <<"403 cloudflare", "403 cloudflare", "no match">>
    /\ SellOut.attempts = 3
    /\ SellOut.error = Some("No liquidity")

\* The log of a call that made k attempts with a new transport before
\* each but the first.
RetryLog(k) == [i \in 1..(2 * k - 1) |-> IF i % 2 = 1 THEN "post" ELSE "refresh"]

----------------------------------------------------------------------------
(* SpecRedeem: one scan or execute command in every environment *)

\* A record an earlier buy left in the store.
HeldEntry(n, m, side) ==
    PositionEntry(Uuid(n), m, Question(m), side, Token(m, side), n, 50,
                  IF side = "YES" THEN YesPrice(m) ELSE NoPrice(m), n, Some(OrderId), TRUE)

\* The stores a command finds: empty; a record of each market; both sides
\* of one market; two buys of one side of one market; a record redeemed
\* before and an open one.
RedeemStores ==
    {Doc(<<>>),
     Doc(<<HeldEntry(1, "m1", "YES"), HeldEntry(2, "m1", "YES")>>),
     Doc(<<HeldEntry(1, "m1", "YES"), HeldEntry(2, "m2", "NO")>>),
     Doc(<<HeldEntry(1, "m1", "YES"), HeldEntry(2, "m1", "NO")>>),
     StoreUpdateStatus(Doc(<<HeldEntry(1, "m1", "YES"), HeldEntry(2, "m2", "NO")>>),
                       Uuid(1), "redeemed")}

\* chain logs the transactions sent from the start of the command on.
InitRedeem ==
    /\ file \in RedeemStores
    /\ tmp = Missing
    /\ chain = <<>>
    /\ now = 3
    /\ nextId = 3
    /\ buy = BuyIdle
    /\ ex = ExIdle
    /\ lock = 0
    /\ th = <<>>
    /\ hist = <<>>

ExStart ==
    /\ ex.phase = "idle"
    /\ ExStartWith(TRUE)

ScanStep == ScanStepWith(TRUE)
FeedStep == FeedStepWith(TRUE)
RedeemStep == RedeemStepWith(TRUE)

NextRedeem ==
    \/ ExStart
    \/ ScanStep
    \/ FeedStep
    \/ Classify
    \/ RedeemStep

SpecRedeem == InitRedeem /\ [][NextRedeem]_vars

\* The entries of the scan result that the local scan made of record pid.
LocalEntries(pid) ==
    {j \in 1..Len(ex.redeemable) :
        ex.redeemable[j].source = "local" /\ ex.redeemable[j].position_id = pid}

\* What the scan found for a record: the market resolved to the side held,
\* a balance above zero, the condition resolved on the chain.
WinsOnChain(pos, env) ==
    /\ ~IsNone(env.market)
    /\ env.market[1].resolved
    /\ ~IsNone(env.market[1].outcome)
    /\ Upper(env.market[1].outcome[1]) = Upper(pos.position)
    /\ ~IsNone(env.balance)
    /\ env.balance[1] > 0
    /\ env.cond_resolved

\* C15: scan_redeemable lists an open record as a winner, with
\* redeemable_usd the balance B (B / 1e6 in dollars), when its market is
\* resolved to the side held, B > 0 and the condition is resolved on the
\* chain, and lists no record as a winner otherwise.
C15_WinnerIffResolvedHeldAndBalance ==
    \A k \in 1..Len(hist) :
        LET pos == hist[k].pos
            env == hist[k].env
        IN /\ WinsOnChain(pos, env) =>
                \E j \in LocalEntries(pos.position_id) :
                    /\ ex.redeemable[j].is_winner
                    /\ ex.redeemable[j].redeemable_usd = env.balance[1]
                    /\ ex.redeemable[j].on_chain_balance = env.balance[1]
           /\ (\E j \in LocalEntries(pos.position_id) : ex.redeemable[j].is_winner)
                => WinsOnChain(pos, env)

\* The scan has listed the NO record of m2 as a winner worth its balance,
\* the market's outcome given in lower case.
C15_Witness ==
    /\ Len(hist) = 2
    /\ hist[2].pos.position = "NO"
    /\ hist[2].env.market = Some(MarketState("m2", TRUE, Some("no")))
    /\ WinsOnChain(hist[2].pos, hist[2].env)
    /\ \E j \in LocalEntries(Uuid(2)) :
          ex.redeemable[j].is_winner /\ ex.redeemable[j].redeemable_usd = 50000000

\* The scan found the record's market resolved to the other side.
LosesOnChain(pos, env) ==
    /\ ~IsNone(env.market)
    /\ env.market[1].resolved
    /\ ~IsNone(env.market[1].outcome)
    /\ Upper(env.market[1].outcome[1]) \in {"YES", "NO"}
    /\ Upper(env.market[1].outcome[1]) # Upper(pos.position)

\* redeem_position was called for the entry the local scan made of pid.
RedeemCalledFor(pid) ==
    \E c \in 1..Len(ex.calls) :
        ex.calls[c].source = "local" /\ ex.calls[c].position_id = pid

\* C16: an open record on the losing side of a resolved market is listed
\* by scan_redeemable as a loser with redeemable_usd 0, and neither scan
\* nor execute calls redeem_position for it.
C16_LoserListedNeverRedeemed ==
    \A k \in 1..Len(hist) :
        LosesOnChain(hist[k].pos, hist[k].env) =>
            /\ LocalEntries(hist[k].pos.position_id) # {}
            /\ \A j \in LocalEntries(hist[k].pos.position_id) :
                  /\ ~ex.redeemable[j].is_winner
                  /\ ex.redeemable[j].redeemable_usd = 0
            /\ ~RedeemCalledFor(hist[k].pos.position_id)

\* An execute that redeemed the YES record of m1 and listed the NO record
\* of the same market as a loser.
C16_Witness ==
    /\ ex.phase = "done"
    /\ ex.cmd = "execute"
    /\ Len(hist) = 2
    /\ hist[2].pos.market_id = "m1"
    /\ LosesOnChain(hist[2].pos, hist[2].env)
    /\ RedeemCalledFor(Uuid(1))
    /\ ~RedeemCalledFor(Uuid(2))

\* An execute that was not a dry run has returned.
Executed ==
    /\ ex.phase = "done"
    /\ ex.cmd = "execute"
    /\ ~ex.dry_run
    /\ ~ex.raised

\* The losers the local scan listed.
LocalLosers ==
    {j \in 1..Len(ex.redeemable) :
        ex.redeemable[j].source = "local" /\ ~ex.redeemable[j].is_winner}

\* C17: when an execute that is not a dry run has returned, every loser
\* the local scan listed has status resolved in the store, with or
\* without winners in the run and whatever their redeems did, and no
\* transaction was sent for it.
C17_LosersResolvedWithoutTx ==
    Executed =>
        \A j \in LocalLosers :
            LET pid == ex.redeemable[j].position_id
            IN /\ get(file, pid) # None
               /\ get(file, pid)[1].status = "resolved"
               /\ ~RedeemCalledFor(pid)
               /\ Len(chain) - ex.txs0 <= Len(ex.calls)
               /\ ex.winners = <<>> => chain = <<>>

\* A run with a winner whose redeem was reverted and a loser.
C17_Witness ==
    /\ Executed
    /\ LocalLosers # {}
    /\ Len(ex.results) = 1
    /\ ~ex.results[1].success
    /\ chain = <<Tx("redeem", Cond("m1"), "reverted")>>
    /\ get(file, Uuid(2))[1].status = "resolved"
    /\ get(file, Uuid(1))[1].status = "open"

\* C18: when an execute that is not a dry run has returned, every winner
\* of the local scan whose redeem was confirmed has status redeemed and
\* notes that give the payout and the hash of the redeem transaction.
C18_RedeemedWinnerMarked ==
    Executed =>
        \A c \in 1..Len(ex.calls) :
            (ex.results[c].success /\ ex.calls[c].source = "local") =>
                LET rec == get(file, ex.calls[c].position_id)
                    tx == ex.results[c].tx_hash
                IN /\ rec # None
                   /\ rec[1].status = "redeemed"
                   /\ rec[1].notes # None
                   /\ rec[1].notes[1].usd_cents = Cents(ex.calls[c].redeemable_usd)
                   /\ tx # None
                   /\ rec[1].notes[1].tx = tx[1]
                   /\ chain[tx[1]] = Tx("redeem", ex.calls[c].condition_id[1], "success")

\* Two winners of the local scan: the first redeem timed out, the second
\* was confirmed.
C18_Witness ==
    /\ Executed
    /\ Len(ex.calls) = 2
    /\ ~ex.results[1].success
    /\ ex.results[2].success
    /\ ex.calls[2].source = "local"
    /\ get(file, Uuid(1))[1].status = "open"
    /\ get(file, Uuid(2))[1].status = "redeemed"
    /\ get(file, Uuid(2))[1].notes[1].tx = 2

\* Record k of the store is as it was, or a loser of the local scan that
\* was marked resolved.
KeptOrResolved(k) ==
    \/ Coll(file')[k] = Coll(file)[k]
    \/ /\ \E j \in LocalLosers : ex.redeemable[j].position_id = Coll(file)[k].position_id
       /\ Coll(file')[k] = [Coll(file)[k] EXCEPT !.status = "resolved"]

\* redeem_all is at a winner that came from the feed only.
AtFeedWinner == ex.phase = "redeem" /\ ex.winners[ex.w].source = "data_api"

\* C19: the redeem of an entry of source data_api, confirmed or failed,
\* changes no record of the store in status or notes on its behalf and
\* adds none.
C19_FeedWinnerLeavesStore ==
    [][AtFeedWinner =>
        /\ Len(Coll(file')) = Len(Coll(file))
        /\ \A k \in 1..Len(Coll(file)) : KeptOrResolved(k)
        /\ get(file', ex.winners[ex.w].position_id) = None]_vars

\* A winner from the feed was redeemed, the store holding an open record:
\* the store is as the command found it.
C19_Witness ==
    /\ Executed
    /\ Len(ex.calls) = 1
    /\ ex.calls[1].source = "data_api"
    /\ ex.results[1].success
    /\ chain = <<Tx("redeem", "0xc9", "success")>>
    /\ get_open(file) # <<>>
    /\ file = ex.pre

\* The entry the scan result holds for a scanned record is the one the
\* record's own environment gives.
ClassifiedAlone(pos, env) ==
    LET found == scan_one(pos, env)
        listed == LocalEntries(pos.position_id)
    IN IF IsNone(found) THEN listed = {}
       ELSE /\ Cardinality(listed) = 1
            /\ \A j \in listed : ex.redeemable[j] = found[1]

\* C20: in scan_redeemable a record whose market fetch or balance read
\* fails is left out of the result, and every open record is examined
\* and classified as its own environment says, whatever failed for the
\* others.
C20_ScanFailureIsolated ==
    /\ Len(hist) <= Len(ex.open)
    /\ ex.phase \notin {"idle", "scan"} => Len(hist) = Len(ex.open)
    /\ \A k \in 1..Len(hist) :
          /\ hist[k].pos = ex.open[k]
          /\ scan_raised(hist[k].pos, hist[k].env) => LocalEntries(hist[k].pos.position_id) = {}
          /\ ClassifiedAlone(hist[k].pos, hist[k].env)

\* The market fetch failed for the first record; the second was listed as
\* a winner.
C20_Witness ==
    /\ Len(hist) = 2
    /\ IsNone(hist[1].env.market)
    /\ LocalEntries(Uuid(1)) = {}
    /\ \E j \in LocalEntries(Uuid(2)) : ex.redeemable[j].is_winner

----------------------------------------------------------------------------
(* Further claims about one redeem command *)

\* C21: in an execute that is not a dry run, a winner whose redeem fails
\* gets an entry in the results with success false and the error, its
\* record in the store keeps status open and its notes, and redeem is
\* still called for every remaining winner.
C21_RedeemFailureIsolated ==
    /\ (ex.phase \in {"redeem", "done"} /\ ex.calls # <<>>) =>
          /\ Len(ex.results) = Len(ex.calls)
          /\ \A c \in 1..Len(ex.calls) :
                /\ ex.calls[c] = ex.winners[c]
                /\ ex.results[c].position_id = ex.calls[c].position_id
                /\ ~ex.results[c].success =>
                      /\ ex.results[c].error # None
                      /\ ex.results[c].tx_hash = None
                      /\ ex.calls[c].source = "local" =>
                            /\ get(file, ex.calls[c].position_id) # None
                            /\ get(file, ex.calls[c].position_id)[1].status = "open"
                            /\ get(file, ex.calls[c].position_id)[1].notes
                                 = get(ex.pre, ex.calls[c].position_id)[1].notes
    /\ (Executed /\ ex.winners # <<>>) => Len(ex.calls) = Len(ex.winners)

\* The redeem of the first of two winners was reverted; the second was
\* redeemed all the same.
C21_Witness ==
    /\ Executed
    /\ Len(ex.calls) = 2
    /\ ~ex.results[1].success
    /\ ex.calls[1].source = "local"
    /\ chain[1].receipt = "reverted"
    /\ ex.results[2].success
    /\ get(file, ex.calls[1].position_id)[1].status = "open"

\* C22: with dry_run set redeem_all scans and classifies and sends no
\* transaction: redeem_position is never called, whatever the scan finds
\* and with or without the feed.
C22_DryRunSendsNothing ==
    (ex.cmd = "execute" /\ ex.dry_run) =>
        /\ ex.calls = <<>>
        /\ chain = <<>>
        /\ (ex.phase = "done" /\ ex.exit_code = 0) =>
              /\ Len(hist) = Len(ex.open)
              /\ ex.winners = Winners(ex.redeemable)
              /\ ex.losers = Losers(ex.redeemable)

\* A dry run with the feed that found a winner and returned.
C22_Witness ==
    /\ ex.cmd = "execute"
    /\ ex.dry_run
    /\ ex.onchain
    /\ ex.phase = "done"
    /\ ex.exit_code = 0
    /\ Len(ex.winners) = 2
    /\ chain = <<>>

\* scan_all has returned its merged result.
Merged ==
    /\ ex.onchain
    /\ ex.phase \in {"classify", "redeem", "done"}
    /\ ex.exit_code = 0

\* The condition an entry of a scan result is about.
ConditionOf(item) ==
    IF IsNone(item.condition_id) THEN Cond(item.market_id) ELSE item.condition_id[1]

\* C23: the result of scan_all holds one entry for each condition; a
\* condition found by the local scan and by the feed keeps its local
\* entry, and the entries of conditions only the feed found come after
\* the local ones.
C23_OneEntryPerCondition ==
    Merged =>
        /\ \A i, j \in 1..Len(ex.redeemable) :
              ConditionOf(ex.redeemable[i]) = ConditionOf(ex.redeemable[j]) => i = j
        /\ \A i, j \in 1..Len(ex.redeemable) :
              (ex.redeemable[i].source = "local" /\ ex.redeemable[j].source = "data_api")
                => i < j

\* C24: an execute that is not a dry run returns an outcome for every
\* entry its scan classified, the winners redeemed or failed and the
\* losers it marked resolved alike.
C24_OutcomeForEveryItem ==
    Executed =>
        /\ Len(ex.results) = Len(ex.redeemable)
        /\ \A j \in 1..Len(ex.redeemable) :
              \E r \in 1..Len(ex.results) :
                  ex.results[r].position_id = ex.redeemable[j].position_id

----------------------------------------------------------------------------
(* Further claims about the records of the trade saga *)

\* The split_tx of a record is the hash of a split of the record's market
\* whose receipt had status 1.
SplitOf(rec) ==
    /\ rec.split_tx \in 1..Len(chain)
    /\ chain[rec.split_tx] = Tx("split", Cond(rec.market_id), "success")

\* C25: every record the buy command writes carries in split_tx the hash
\* of a split transaction that was confirmed with success before the
\* write; no record is written for a split that was reverted, timed out
\* or was never sent.
C25_RecordHasConfirmedSplit ==
    /\ \A k \in 1..Len(Coll(file)) : SplitOf(Coll(file)[k])
    /\ buy.cmd = "cmd_buy" =>
          /\ \A k \in 1..Len(BuyAppended) : BuyAppended[k].split_tx \in BuyTxs
          /\ (\A i \in BuyTxs : chain[i].receipt # "success") => file = buy.pre
          /\ BuyTxs = {} => file = buy.pre

\* A second record, written after its split confirmed and its hedge sell
\* found no match.
C25_Witness ==
    /\ buy.cmd = "cmd_buy"
    /\ buy.pre = Doc(<<EarlierEntry>>)
    /\ Len(BuyAppended) = 1
    /\ BuyAppended[1].split_tx = 2
    /\ chain[2].receipt = "success"
    /\ ~BuyAppended[1].clob_filled

\* C26: no run of the buy command or of the redeem commands removes a
\* record or changes a record's position_id: over any sequence of buy,
\* scan and execute runs the stored position_ids are kept.
C26_RecordsNeverRemoved ==
    [][/\ Len(Coll(file')) >= Len(Coll(file))
       /\ \A k \in 1..Len(Coll(file)) :
             Coll(file')[k].position_id = Coll(file)[k].position_id]_vars

\* Two buys with an execute in between: the first record redeemed and
\* still there, the second open.
C26_Witness ==
    /\ Len(Coll(file)) = 2
    /\ Coll(file)[1].position_id = Uuid(1)
    /\ Coll(file)[1].status = "redeemed"
    /\ Coll(file)[2].position_id = Uuid(2)
    /\ Coll(file)[2].status = "open"

----------------------------------------------------------------------------
(* A further claim about sell_fok *)

\* C27: the limit price of the orders sell_fok submits is 90% of the
\* reference price, not below the tick of 0.01, rounded to the cent (to
\* either side at a half cent); for a reference price of 0.35 it is 0.31.
C27_LimitPriceNinetyPercent ==
    (Sold /\ hist.limit # None) =>
        LET limit == hist.limit[1]
        IN /\ limit >= 1
           /\ 9 * hist.price >= 10 =>
                 (10 * limit - 9 * hist.price <= 5 /\ 9 * hist.price - 10 * limit <= 5)
           /\ 9 * hist.price < 10 => limit = 1
           /\ hist.price = 35 => limit = 31

----------------------------------------------------------------------------
(* SpecFeed: one scan_redeemable_onchain on feeds of up to three pages *)

\* The lengths of a feed: nothing, one item, a page less one, one page,
\* a page and one, two pages, two pages and one.
FeedLengths ==
    {0, 1, PAGE_LIMIT - 1, PAGE_LIMIT, PAGE_LIMIT + 1, 2 * PAGE_LIMIT, 2 * PAGE_LIMIT + 1}

\* The conditions the i-th item of a feed may be of: one of three the
\* wallet holds in turn, or one of two others.
HeldCond(i) == IF i % 3 = 0 THEN "0xc1" ELSE IF i % 3 = 1 THEN "0xc2" ELSE "0xc9"
OtherCond(i) == IF i % 2 = 0 THEN "0xd1" ELSE "0xd2"

\* A feed of n items: every item held; every second item with size 0;
\* held items of other conditions.
FeedKinds == {"held", "gaps", "others"}
FeedOf(n, kind) ==
    [i \in 1..n |->
        FeedItem(IF kind = "others" THEN OtherCond(i) ELSE HeldCond(i),
                 IF kind = "gaps" /\ i % 2 = 0 THEN 0 ELSE 3000000,
                 IF i % 2 = 0 THEN "Yes" ELSE "No")]

\* hist: the two feeds and, once the scan has returned, its queries.
InitFeed ==
    /\ file = Missing
    /\ tmp = Missing
    /\ chain = <<>>
    /\ now = 1
    /\ nextId = 1
    /\ buy = BuyIdle
    /\ ex = ExIdle
    /\ lock = 0
    /\ th = <<>>
    /\ hist \in {[redeemable |-> FeedOf(n, k), mergeable |-> FeedOf(m, l), out |-> None] :
                    n \in FeedLengths, m \in FeedLengths, k \in FeedKinds, l \in FeedKinds}

\* executor.scan_redeemable_onchain()
ScanOnchain ==
    /\ hist.out = None
    /\ hist' = [hist EXCEPT !.out = Some(feed_queries(hist.redeemable, hist.mergeable))]
    /\ UNCHANGED <<file, tmp, chain, now, nextId, buy, ex, lock, th>>

NextFeed == ScanOnchain

SpecFeed == InitFeed /\ [][NextFeed]_vars

\* The offsets of the pages of a feed of n items up to the first page
\* that is empty or short.
PagesOf(n) == [i \in 1..(n \div PAGE_LIMIT + 1) |-> (i - 1) * PAGE_LIMIT]

\* The entries of the items of a feed that have a size, in the feed's order.
Sized(feed) ==
    LET sized == SelectSeq(feed, LAMBDA it : it.size > 0)
    IN [j \in 1..Len(sized) |-> OnchainItem(sized[j])]

\* C28: each query of the feed, redeemable and then mergeable, asks for
\* the pages at offsets 0, 100, 200, ... of 100 items and stops at the
\* first page that is empty or shorter than 100; the scan returns for
\* every finite feed, and every item with size > 0 is in the result, an
\* item of the mergeable query unless its condition is listed already.
C28_PagesUntilShortPage ==
    hist.out # None =>
        LET out == hist.out[1]
            n == out.listed_first
        IN /\ out.asked_redeemable = PagesOf(Len(hist.redeemable))
           /\ out.asked_mergeable = PagesOf(Len(hist.mergeable))
           /\ SubSeq(out.items, 1, n) = Sized(hist.redeemable)
           /\ \A i \in 1..Len(hist.mergeable) :
                 hist.mergeable[i].size > 0 =>
                    \E j \in 1..Len(out.items) :
                        out.items[j].market_id = hist.mergeable[i].conditionId
           /\ \A j \in (n + 1)..Len(out.items) :
                 /\ \E i \in 1..Len(hist.mergeable) :
                       /\ hist.mergeable[i].size > 0
                       /\ out.items[j] = OnchainItem(hist.mergeable[i])
                 /\ \A k \in 1..(j - 1) : out.items[k].market_id # out.items[j].market_id

\* A redeemable feed of two pages and one item, every second item empty,
\* and a mergeable feed of one page of other conditions: three pages and
\* two pages asked.
C28_Witness ==
    /\ hist.out # None
    /\ Len(hist.redeemable) = 2 * PAGE_LIMIT + 1
    /\ hist.redeemable[2].size = 0
    /\ Len(hist.mergeable) = PAGE_LIMIT
    /\ hist.mergeable[1].conditionId = "0xd2"
    /\ hist.out[1].asked_redeemable = <<0, PAGE_LIMIT, 2 * PAGE_LIMIT>>
    /\ hist.out[1].asked_mergeable = <<0, PAGE_LIMIT>>
    /\ hist.out[1].listed_first = PAGE_LIMIT + 1
    /\ Len(hist.out[1].items) = PAGE_LIMIT + 3

----------------------------------------------------------------------------
(* SpecNonce: the nonces of the transactions of one run *)

\* The approvals of set_approvals.
APPROVALS == 6

\* The transaction counts the node may report when the run begins.
BaseCounts == 0..2

\* hist: the run (none, approvals, redeems, done), the transactions it
\* has still to send, the count of mined transactions at the node, whether
\* a transaction of the run waits unmined, current_nonce (None in a run
\* that keeps none), the times the run asked the node for the count, the
\* nonces of the transactions it built, and whether it raised.
NonceState(run, todo, mined, pending, current_nonce, queries, nonces, raised) ==
    [run |-> run, todo |-> todo, mined |-> mined, pending |-> pending,
     current_nonce |-> current_nonce, queries |-> queries, nonces |-> nonces,
     raised |-> raised]

InitNonce ==
    /\ file = Missing
    /\ tmp = Missing
    /\ chain = <<>>
    /\ now = 1
    /\ nextId = 1
    /\ buy = BuyIdle
    /\ ex = ExIdle
    /\ lock = 0
    /\ th = <<>>
    /\ hist \in {NonceState("none", 0, n, FALSE, None, 0, <<>>, FALSE) : n \in BaseCounts}

\* w3.eth.get_transaction_count(address): the transactions mined.
get_transaction_count(h) == h.mined

\* The node after a transaction with this receipt: mined, with status 1
\* or 0, or not mined within the wait, or refused when sent.
NodeAfter(h, outcome) ==
    [mined |-> IF outcome \in {"success", "reverted"} THEN h.mined + 1 ELSE h.mined,
     pending |-> IF outcome = "timeout" THEN TRUE ELSE h.pending]

\* set_approvals up to its loop: the count is asked once.
SetApprovalsStart ==
    /\ hist.run = "none"
    /\ hist' = [hist EXCEPT !.run = "approvals", !.todo = APPROVALS,
                            !.current_nonce = Some(get_transaction_count(hist)),
                            !.queries = @ + 1]
    /\ UNCHANGED <<file, tmp, chain, now, nextId, buy, ex, lock, th>>

\* One turn of the loop of set_approvals: the transaction is built with
\* current_nonce; a receipt of status 1 adds one to current_nonce, any
\* other end raises out of the loop.
ApprovalTx ==
    /\ hist.run = "approvals"
    /\ \E outcome \in TxOutcomes :
         LET node == NodeAfter(hist, outcome)
             ok == outcome = "success"
         IN hist' = [hist EXCEPT !.nonces = Append(@, hist.current_nonce[1]),
                                 !.mined = node.mined,
                                 !.pending = node.pending,
                                 !.current_nonce = IF ok THEN Some(@[1] + 1) ELSE @,
                                 !.todo = IF ok THEN @ - 1 ELSE @,
                                 !.raised = ~ok,
                                 !.run = IF ~ok \/ hist.todo = 1 THEN "done" ELSE @]
    /\ UNCHANGED <<file, tmp, chain, now, nextId, buy, ex, lock, th>>

\* redeem_all at the loop over its winners.
RedeemAllStart ==
    /\ hist.run = "none"
    /\ \E winners \in 1..MaxTx :
         hist' = [hist EXCEPT !.run = "redeems", !.todo = winners]
    /\ UNCHANGED <<file, tmp, chain, now, nextId, buy, ex, lock, th>>

\* redeem_position for one winner: the transaction is built with the
\* count the node reports at this call; a failure is caught by redeem_all
\* and the loop goes on.
RedeemPositionTx ==
    /\ hist.run = "redeems"
    /\ \E outcome \in TxOutcomes :
         LET node == NodeAfter(hist, outcome)
         IN hist' = [hist EXCEPT !.nonces = Append(@, get_transaction_count(hist)),
                                 !.queries = @ + 1,
                                 !.mined = node.mined,
                                 !.pending = node.pending,
                                 !.todo = @ - 1,
                                 !.run = IF hist.todo = 1 THEN "done" ELSE @]
    /\ UNCHANGED <<file, tmp, chain, now, nextId, buy, ex, lock, th>>

\* The node mines a transaction that waited.
NodeMines ==
    /\ hist.run \in {"approvals", "redeems"}
    /\ hist.pending
    /\ hist' = [hist EXCEPT !.mined = @ + 1, !.pending = FALSE]
    /\ UNCHANGED <<file, tmp, chain, now, nextId, buy, ex, lock, th>>

NextNonce ==
    \/ SetApprovalsStart
    \/ ApprovalTx
    \/ RedeemAllStart
    \/ RedeemPositionTx
    \/ NodeMines

SpecNonce == InitNonce /\ [][NextNonce]_vars

\* C29: a run that sends several transactions in a row, the six
\* approvals of set_approvals or the redeems of the winners of one
\* redeem_all, asks the node for the transaction count once, and each
\* later transaction has the nonce of the one before plus one.
C29_NonceFetchedOncePerRun ==
    hist.run # "none" =>
        /\ hist.queries <= 1
        /\ \A k \in 2..Len(hist.nonces) : hist.nonces[k] = hist.nonces[k - 1] + 1

----------------------------------------------------------------------------
(* A further claim about the status of a record *)

\* The step sends a redeem of the record's condition that is confirmed
\* with success, in an execute that is not a dry run.
RedeemConfirmedFor(rec) ==
    /\ ex.cmd = "execute"
    /\ ~ex.dry_run
    /\ \E i \in (Len(chain) + 1)..Len(chain') :
          /\ i > ex.txs0
          /\ chain'[i] = Tx("redeem", Cond(rec.market_id), "success")

\* C30: the status of a record becomes redeemed only in an execute run
\* that has sent a redeem transaction for the record's condition and got
\* its receipt with success; never when the redeem was reverted, timed
\* out, was not sent or was not attempted.
C30_RedeemedOnlyAfterConfirmedTx ==
    [][\A k \in 1..Len(Coll(file)) :
          (Coll(file)[k].status # "redeemed" /\ Coll(file')[k].status = "redeemed")
            => RedeemConfirmedFor(Coll(file)[k])]_vars

\* The first winner redeemed and marked, the redeem of the second not
\* sent and its record open.
C30_Witness ==
    /\ Executed
    /\ Len(ex.calls) = 2
    /\ ex.results[1].success
    /\ ~ex.results[2].success
    /\ chain = <<Tx("redeem", Cond("m1"), "success")>>
    /\ ex.calls[1].source = "local"
    /\ ex.calls[2].source = "local"
    /\ get(file, Uuid(1))[1].status = "redeemed"
    /\ get(file, Uuid(2))[1].status = "open"

----------------------------------------------------------------------------
(* Further claims about the redeem commands *)

\* C31: within one execute that is not a dry run redeem_position is
\* called at most once for each condition, also when several open
\* records are of the same market.
C31_OneRedeemPerCondition ==
    /\ \A c, d \in 1..Len(ex.calls) :
          ConditionOf(ex.calls[c]) = ConditionOf(ex.calls[d]) => c = d
    /\ \A i, j \in (ex.txs0 + 1)..Len(chain) :
          (chain[i].kind = "redeem" /\ chain[j].kind = "redeem"
           /\ chain[i].condition_id = chain[j].condition_id) => i = j

\* C32: an execute with dry_run set leaves the store as it found it: no
\* record differs in status or notes, whatever the scan found.
C32_DryRunLeavesStore ==
    (ex.cmd = "execute" /\ ex.dry_run) => file = ex.pre

\* C33: scan_redeemable lists an open record as a loser, and execute
\* marks it resolved, only when its market is resolved with an outcome of
\* YES or NO that is the other side than the record's; a resolved market
\* with no outcome, or one that is neither, makes no record a loser.
C33_LoserOnlyOnOppositeOutcome ==
    \A k \in 1..Len(hist) :
        LET pid == hist[k].pos.position_id
        IN /\ (\E j \in LocalEntries(pid) : ~ex.redeemable[j].is_winner)
                => LosesOnChain(hist[k].pos, hist[k].env)
           /\ (get(file, pid) # None /\ get(file, pid)[1].status = "resolved")
                => LosesOnChain(hist[k].pos, hist[k].env)

\* Every call the run made for a scanned record went through: the market
\* was fetched, the balance was read if the record is on the winning
\* side, and the condition was found resolved if a balance is held.
ReadsSucceeded(pos, env) ==
    /\ ~IsNone(env.market)
    /\ (env.market[1].resolved /\ ~IsNone(env.market[1].outcome)
          /\ Upper(env.market[1].outcome[1]) = Upper(pos.position))
         => (~IsNone(env.balance) /\ (env.balance[1] > 0 => env.cond_resolved))

\* C34: when an open record's market is resolved and every call of the
\* run succeeds, the record is not open after an execute that is not a
\* dry run: it is redeemed or resolved.
C34_ResolvedRecordLeavesOpen ==
    (Executed /\ \A c \in 1..Len(ex.results) : ex.results[c].success) =>
        \A k \in 1..Len(hist) :
            (ReadsSucceeded(hist[k].pos, hist[k].env) /\ hist[k].env.market[1].resolved)
              => get(file, hist[k].pos.position_id)[1].status \in {"redeemed", "resolved"}

----------------------------------------------------------------------------
(* Further claims about the store calls: update_status and update_notes *)

\* The record with the field set to the value, every other field kept.
WithField(rec, field, value) ==
    IF field = "status" THEN [rec EXCEPT !.status = value]
    ELSE [rec EXCEPT !.notes = value]

\* The collection after the call is the one of before it with the field
\* of the first record that has the id set to the value: as many records,
\* in the same order, every other record and every other field as before.
OnlyFieldChanged(pre, post, pid, field, value) ==
    /\ post.kind = "array"
    /\ Len(Coll(post)) = Len(Coll(pre))
    /\ \A i \in 1..Len(Coll(pre)) :
          Coll(post)[i] = IF i = FirstIndex(Coll(pre), pid)
                          THEN WithField(Coll(pre)[i], field, value)
                          ELSE Coll(pre)[i]

\* C36: update_status and update_notes on an id that a record of the store
\* has return True and change only the status (the notes) of the first
\* record with that id: its other fields, every other record, the number
\* of records and their order are the ones of before the call.
C36_UpdateChangesOnlyItsField ==
    (/\ hist.n > 0
     /\ LastCall.call \in {"update_status", "update_notes"}
     /\ iterate_error(load_all(LastCall.pre)) = "none"
     /\ FirstIndex(Coll(LastCall.pre), LastCall.pid[1]) # 0)
    => /\ LastCall.raised = "none"
       /\ LastCall.value = TRUE
       /\ tmp = Missing
       /\ OnlyFieldChanged(LastCall.pre, file, LastCall.pid[1],
                           IF LastCall.call = "update_status" THEN "status" ELSE "notes",
                           LastCall.entry[1])

\* update_notes on a store of two records with one id, after an
\* update_status of it: the first has the notes and the status, the
\* second is as it was added.
C36_Witness ==
    /\ Len(hist.last) = 2
    /\ hist.last[1].call = "update_status"
    /\ hist.last[1].entry = Some("redeemed")
    /\ hist.last[1].pre = Doc(<<StoreEntry(1, 1), StoreEntry(1, 3)>>)
    /\ LastCall.call = "update_notes"
    /\ LastCall.pid = Some(Uuid(1))
    /\ LastCall.entry = Some(Some("sold"))
    /\ LastCall.value = TRUE
    /\ Coll(file)[1].status = "redeemed"
    /\ Coll(file)[1].notes = Some("sold")
    /\ Coll(file)[2] = StoreEntry(1, 3)

----------------------------------------------------------------------------
(* SpecProcs: a buy and an execute running as two processes on one       *)
(* positions file, their store calls interleaved step by step            *)

\* The processes: 1 is the buy, 2 is the execute.
Procs == 1..2

\* The notes execute writes for the record it redeemed.
ProcNote == Some(RedeemNote(50000000, 1, 2))

\* The store calls of each process, in the order it makes them: cmd_buy
\* adds its record; redeem_all marks the redeemed record, then writes its
\* notes.
ProcCalls(p) ==
    IF p = 1
    THEN <<StoreOp("add", Some(StoreEntry(2, 2)), None, None)>>
    ELSE <<StoreOp("update_status", None, Some(Uuid(1)), Some("redeemed")),
           StoreOp("update_notes", None, Some(Uuid(1)), ProcNote)>>

\* A process: where it is in its call, the calls it has still to make (the
\* first is the one under way), the collection it loaded, the exception
\* that ended it.
Proc(pc, ops, loaded, raised) == [pc |-> pc, ops |-> ops, loaded |-> loaded, raised |-> raised]

\* The process after the return of its call: the next call, or the end.
ProcReturned(q) ==
    IF Len(q.ops) > 1 THEN Proc("exists", Tail(q.ops), <<>>, "none")
    ELSE Proc("done", <<>>, <<>>, "none")

InitProcs ==
    /\ file \in {Doc(<<StoreEntry(1, 1)>>), Doc(<<StoreEntry(1, 1), StoreEntry(3, 1)>>)}
    /\ tmp = Missing
    /\ chain = <<>>
    /\ now = 1
    /\ nextId = 1
    /\ buy = BuyIdle
    /\ ex = ExIdle
    /\ lock = 0
    /\ th = [p \in Procs |-> Proc("exists", ProcCalls(p), <<>>, "none")]
    /\ hist = [pre |-> file, overlapped |-> FALSE]

\* A call of one process is between its load_all and its return while
\* the other process is.
Overlap(t) ==
    \A p \in Procs : t[p].pc \in {"read", "loaded", "writing", "writing_renamed", "written"}

\* with _storage_lock: the lock is an object of the calling process and
\* the process has one thread, so it is free. load_all: if not
\* self.path.exists(): return []
ProcExists ==
    /\ \E p \in Procs :
         /\ th[p].pc = "exists"
         /\ th' = [th EXCEPT ![p] = IF file.kind = "missing"
                                    THEN Proc("loaded", th[p].ops, <<>>, "none")
                                    ELSE Proc("read", th[p].ops, <<>>, "none")]
    /\ hist' = [hist EXCEPT !.overlapped = @ \/ Overlap(th')]
    /\ UNCHANGED <<file, tmp, lock, Others>>

\* load_all: json.loads(self.path.read_text()), [] on a JSONDecodeError.
ProcRead ==
    /\ \E p \in Procs :
         /\ th[p].pc = "read"
         /\ th' = [th EXCEPT ![p] = Proc("loaded", th[p].ops, Coll(file), "none")]
    /\ hist' = [hist EXCEPT !.overlapped = @ \/ Overlap(th')]
    /\ UNCHANGED <<file, tmp, lock, Others>>

\* The change in memory, then save_all up to the opening of temp for
\* writing, which empties it; an update that found no record returns.
ProcWriteOpen ==
    /\ \E p \in Procs :
         /\ th[p].pc = "loaded"
         /\ IF Saves(th[p].ops[1], th[p].loaded)
            THEN /\ WriteTo(with_suffix(PositionsPath), Undecodable)
                 /\ th' = [th EXCEPT ![p].pc = "writing"]
            ELSE /\ UNCHANGED <<file, tmp>>
                 /\ th' = [th EXCEPT ![p] = ProcReturned(th[p])]
    /\ hist' = [hist EXCEPT !.overlapped = @ \/ Overlap(th')]
    /\ UNCHANGED <<lock, Others>>

\* temp.write_text(json.dumps(positions, indent=2)): the text is written
\* into the file the process opened, which is the positions file when the
\* other process has renamed it since.
ProcWriteDone ==
    /\ \E p \in Procs :
         /\ th[p].pc \in {"writing", "writing_renamed"}
         /\ WriteTo(IF th[p].pc = "writing" THEN with_suffix(PositionsPath)
                     ELSE PositionsPath,
                    Doc(Apply(th[p].ops[1], th[p].loaded)))
         /\ th' = [th EXCEPT ![p].pc = "written"]
    /\ UNCHANGED <<lock, hist, Others>>

\* The processes after process p has renamed temp: the ones that have it
\* open for writing now hold the positions file.
Renamed(t, p) ==
    [q \in Procs |-> IF q # p /\ t[q].pc = "writing"
                     THEN [t[q] EXCEPT !.pc = "writing_renamed"] ELSE t[q]]

\* temp.replace(self.path), then the return of the call; FileNotFoundError
\* when the other process has renamed temp away.
ProcReplace ==
    /\ \E p \in Procs :
         /\ th[p].pc = "written"
         /\ IF tmp.kind = "missing"
            THEN /\ UNCHANGED <<file, tmp>>
                 /\ th' = [th EXCEPT ![p] = Proc("done", <<>>, <<>>, "FileNotFoundError")]
            ELSE /\ Replace(with_suffix(PositionsPath))
                 /\ th' = Renamed([th EXCEPT ![p] = ProcReturned(th[p])], p)
    /\ UNCHANGED <<lock, hist, Others>>

NextProcs ==
    \/ ProcExists
    \/ ProcRead
    \/ ProcWriteOpen
    \/ ProcWriteDone
    \/ ProcReplace

SpecProcs == InitProcs /\ [][NextProcs]_vars

\* Both processes have ended.
ProcsDone == \A p \in Procs : th[p].pc = "done"

\* C35: when a buy and an execute run as two processes on one positions
\* file and interleave their store calls, no update is lost: at the end
\* the file holds the records of before, the record buy added, and the
\* status and the notes execute wrote, and neither process has failed.
C35_NoLostUpdateAcrossProcesses ==
    ProcsDone =>
        /\ \A p \in Procs : th[p].raised = "none"
        /\ file = Doc(Append(update_notes_mutate(
                                 update_status_mutate(Coll(hist.pre), Uuid(1), "redeemed"),
                                 Uuid(1), ProcNote),
                             StoreEntry(2, 2)))

====
